---- MODULE Spec2Model ----
(***************************************************************************)
(* Riding Club Championships server emulator (src/Server.py): the TCP game *)
(* channel (listener, per-connection handler threads, message dispatcher,  *)
(* login handler, card catalogue) and the SQLite identity store.           *)
(*                                                                         *)
(* Bytes are naturals 0..255, byte strings are sequences of bytes, Python  *)
(* text that goes into the database is a TLA+ string.  64-bit values are   *)
(* kept as their 8 little-endian bytes because they exceed TLC's integers. *)
(***************************************************************************)
EXTENDS Integers, Sequences, FiniteSets, TLC

----------------------------------------------------------------------------
(* Bounds of the model *)

\* messages the WebSocket clients send in one run
MaxWsMessages == 2

\* every value up to this one is encoded as a VarInt on its own
MaxSmallVarInt == 300

\* non-empty reads (recv returning data) over all connections of one run
MaxReads == 2

\* the same, in a run where the clients send nothing but logins
MaxLoginReads == 3

----------------------------------------------------------------------------
(* Python primitives *)

Min(a, b) == IF a < b THEN a ELSE b
Max(a, b) == IF a > b THEN a ELSE b

\* bytes[a:b] with Python's clamping of both ends
PySlice(s, a, b) == SubSeq(s, Min(a, Len(s)) + 1, Min(b, Len(s)))

\* bytes[a:]
PyFrom(s, a) == SubSeq(s, Min(a, Len(s)) + 1, Len(s))

RECURSIVE Concat(_)
Concat(ss) == IF ss = <<>> THEN <<>> ELSE Head(ss) \o Concat(Tail(ss))

\* struct.pack('<H', v)
pack_H(v) == <<v % 256, (v \div 256) % 256>>

\* struct.unpack('<H', b)[0]
unpack_H(b) == b[1] + 256 * b[2]

\* struct.pack('<I', v) for 0 <= v < 2^31 and struct.pack('<i', v) for
\* -2^31 < v < 2^31 (two's complement: \div and % round towards minus infinity)
pack_I(v) == <<v % 256, (v \div 256) % 256, (v \div 65536) % 256, (v \div 16777216) % 256>>

\* struct.pack('<f', x) for the float literals the card encoders use
pack_f(x) ==
    CASE x = "0.0"   -> <<0, 0, 0, 0>>
      [] x = "0.9"   -> <<102, 102, 102, 63>>
      [] x = "1.0"   -> <<0, 0, 128, 63>>
      [] x = "1.1"   -> <<205, 204, 140, 63>>
      [] x = "1.2"   -> <<154, 153, 153, 63>>
      [] x = "1.5"   -> <<0, 0, 192, 63>>
      [] x = "1.8"   -> <<102, 102, 230, 63>>
      [] x = "2.0"   -> <<0, 0, 0, 64>>
      [] x = "10.0"  -> <<0, 0, 32, 65>>
      [] x = "80.0"  -> <<0, 0, 160, 66>>
      [] x = "100.0" -> <<0, 0, 200, 66>>
      [] x = "120.0" -> <<0, 0, 240, 66>>
      [] x = "300.0" -> <<0, 0, 150, 67>>

DigitChar == <<"0", "1", "2", "3", "4", "5", "6", "7", "8", "9">>
HexChar == <<"0", "1", "2", "3", "4", "5", "6", "7", "8", "9", "a", "b", "c", "d", "e", "f">>

\* str(n) for a natural number n
RECURSIVE NatStr(_)
NatStr(n) == IF n < 10 THEN DigitChar[n + 1] ELSE NatStr(n \div 10) \o DigitChar[(n % 10) + 1]

\* bytes.hex()
RECURSIVE HexRange(_, _, _)
HexRange(b, lo, hi) ==
    IF lo > hi THEN ""
    ELSE IF lo = hi THEN HexChar[(b[lo] \div 16) + 1] \o HexChar[(b[lo] % 16) + 1]
    ELSE LET mid == (lo + hi) \div 2
         IN  HexRange(b, lo, mid) \o HexRange(b, mid + 1, hi)

Hex(b) == HexRange(b, 1, Len(b))

\* One long-division step of a big-endian byte string by 10: <<quotient, remainder>>
RECURSIVE DivMod10(_, _)
DivMod10(be, carry) ==
    IF be = <<>> THEN <<(<<>>), carry>>
    ELSE LET cur  == carry * 256 + Head(be)
             rest == DivMod10(Tail(be), cur % 10)
         IN  <<(<<cur \div 10>>) \o rest[1], rest[2]>>

\* A function over 1..n as an explicit tuple (its elements evaluated)
RECURSIVE TupFrom(_, _, _)
TupFrom(f, lo, hi) ==
    IF lo > hi THEN <<>>
    ELSE IF lo = hi THEN <<f[lo]>>
    ELSE LET mid == (lo + hi) \div 2
         IN  TupFrom(f, lo, mid) \o TupFrom(f, mid + 1, hi)

Tup(f) == TupFrom(f, 1, Len(f))

Reverse(s) == Tup([i \in 1..Len(s) |-> s[Len(s) + 1 - i]])

IsZero(be) == \A i \in 1..Len(be) : be[i] = 0

RECURSIVE BigStr(_)
BigStr(be) ==
    LET qr == DivMod10(be, 0)
    IN  IF IsZero(qr[1]) THEN DigitChar[qr[2] + 1]
        ELSE BigStr(qr[1]) \o DigitChar[qr[2] + 1]

\* str(struct.unpack('<Q', b)[0]) of 8 little-endian bytes
StrQ(le) == BigStr(Reverse(le))

\* a < b for two unsigned values given as little-endian bytes of equal length
RECURSIVE LessBE(_, _)
LessBE(a, b) ==
    IF a = <<>> THEN FALSE
    ELSE IF Head(a) # Head(b) THEN Head(a) < Head(b)
    ELSE LessBE(Tail(a), Tail(b))

LessQ(a, b) == LessBE(Reverse(a), Reverse(b))

----------------------------------------------------------------------------
(* CRC32 (zlib.crc32), on 32-bit words kept as sequences of 32 bits,       *)
(* least significant bit first                                             *)

RECURSIVE Bits(_, _)
Bits(v, n) == IF n = 0 THEN <<>> ELSE <<v % 2>> \o Bits(v \div 2, n - 1)

XorBits(a, b) == Tup([i \in 1..Len(a) |-> (a[i] + b[i]) % 2])

\* the polynomial 0x04C11DB7, not reflected
CrcPoly_Unreflected == Bits(7607, 16) \o Bits(1217, 16)

\* the reflected polynomial 0xEDB88320, least significant bit first
CrcPoly == Bits(33568, 16) \o Bits(60856, 16)

ShiftRight1(w) == Tail(w) \o <<0>>

\* (the test on Len(w) makes TLC evaluate w at every step instead of building
\* a chain of unevaluated arguments)
RECURSIVE CrcShift(_, _)
CrcShift(w, k) ==
    IF k = 0 \/ Len(w) # 32 THEN w
    ELSE CrcShift(IF w[1] = 1 THEN XorBits(ShiftRight1(w), CrcPoly) ELSE ShiftRight1(w), k - 1)

RECURSIVE CrcUpdate(_, _)
CrcUpdate(w, bytes) ==
    IF bytes = <<>> \/ Len(w) # 32 THEN w
    ELSE CrcUpdate(CrcShift(XorBits(w, Bits(Head(bytes), 8) \o Bits(0, 24)), 8), Tail(bytes))

AllOnes == Tup([i \in 1..32 |-> 1])

RECURSIVE BitsVal(_)
BitsVal(bs) == IF bs = <<>> THEN 0 ELSE Head(bs) + 2 * BitsVal(Tail(bs))

\* calculate_crc32_hash(text) for the UTF-8 bytes of text, as the 4 bytes
\* struct.pack('<I', crc) writes (the value itself can exceed 2^31)
calculate_crc32_hash(text_bytes) ==
    LET w == XorBits(CrcUpdate(AllOnes, text_bytes), AllOnes)
    IN  Tup([k \in 1..4 |-> BitsVal(SubSeq(w, 8 * k - 7, 8 * k))])

----------------------------------------------------------------------------
(* VarInt *)

\* An encoder that writes the low 7 bits and stops
encode_varint_OneByte(value) == <<value % 128>>

\* RCCServerEmulator.encode_varint
RECURSIVE encode_varint(_)
encode_varint(value) ==
    IF value >= 128 THEN <<(value % 128) + 128>> \o encode_varint(value \div 128)
    ELSE <<value % 128>>

\* The client's frame reader: the VarInt length prefix of a byte string, as
\* <<value, number of prefix bytes>>; <<-1, 0>> when no terminal byte is found
\* within 5 bytes or the value needs more than 31 bits.
RECURSIVE ReadVarInt(_, _, _, _)
ReadVarInt(b, i, shift, acc) ==
    IF i > Len(b) \/ i > 5 THEN <<-1, 0>>
    ELSE IF i = 5 /\ b[i] > 7 THEN <<-1, 0>>
    ELSE IF b[i] >= 128 THEN ReadVarInt(b, i + 1, shift * 128, acc + (b[i] % 128) * shift)
    ELSE <<acc + b[i] * shift, i>>

\* A byte string is exactly one frame: VarInt length, then that many bytes.
IsFrame(b) ==
    LET r == ReadVarInt(b, 1, 1, 0)
    IN  r[1] >= 0 /\ Len(b) = r[2] + r[1]

\* The payload of a frame
FramePayload(b) == PyFrom(b, ReadVarInt(b, 1, 1, 0)[2])

----------------------------------------------------------------------------
(* Card encoders *)

ID_logic_main == <<108, 111, 103, 105, 99, 95, 109, 97, 105, 110>>
ID_logic_action_points ==
    <<108, 111, 103, 105, 99, 95, 97, 99, 116, 105, 111, 110, 95, 112, 111, 105, 110, 116, 115>>
ID_logic_chat == <<108, 111, 103, 105, 99, 95, 99, 104, 97, 116>>
ID_skins == <<115, 107, 105, 110, 115>>
Item_fred == <<102, 114, 101, 100>>
Item_baguette == <<98, 97, 103, 117, 101, 116, 116, 101>>
Flag_snow == <<115, 110, 111, 119>>

\* Write.String: VarInt length, then the UTF-8 bytes
WriteString(bytes) == encode_varint(Len(bytes)) \o bytes

\* An item of a reward: <<"str", UTF-8 bytes of an ID>> or <<"int", hash>>;
\* the 4 bytes create_reward_data writes for it
ItemHashBytes(item) ==
    IF item[1] = "str" THEN calculate_crc32_hash(item[2]) ELSE pack_I(item[2])

\* A reward written as a length-prefixed object
create_reward_data_Prefixed(coins, skill_tickets, xp, ap, items) ==
    LET body == <<128>> \o pack_I(coins) \o pack_I(skill_tickets) \o pack_I(xp)
                    \o pack_I(ap) \o encode_varint(Len(items))
                    \o Concat([i \in 1..Len(items) |-> ItemHashBytes(items[i])])
    IN  encode_varint(Len(body)) \o body

\* RCCServerEmulator.create_reward_data
create_reward_data(coins, skill_tickets, xp, ap, items) ==
    <<128>> \o pack_I(coins) \o pack_I(skill_tickets) \o pack_I(xp) \o pack_I(ap)
        \o encode_varint(Len(items))
        \o Concat([i \in 1..Len(items) |-> ItemHashBytes(items[i])])

\* RCCServerEmulator.create_price_data; sale is "None" or a float literal
create_price_data(coins, skill_tickets, sale) ==
    <<(IF sale = "None" THEN 0 ELSE 128)>> \o pack_I(coins) \o pack_I(skill_tickets)
        \o (IF sale = "None" THEN <<>> ELSE pack_f(sale))

\* RCCServerEmulator.create_bonuses_data; rates are the five floats, stats the seven ints
create_bonuses_data(rates, stats) ==
    Concat([i \in 1..Len(rates) |-> pack_f(rates[i])])
        \o Concat([i \in 1..Len(stats) |-> pack_I(stats[i])])

LevelsXp == <<100, 250, 500, 1000, 2000, 4000, 8000, 16000, 32000, 64000>>

\* RCCServerEmulator.create_logicmain_card_data
create_logicmain_card_data ==
    <<21>> \o WriteString(ID_logic_main)
        \o pack_I(100) \o pack_I(10) \o pack_I(20) \o pack_I(20)
        \o create_reward_data(100, 1, 0, 25, <<(<<"str", Item_fred>>)>>)
        \o create_reward_data(100, 0, 100, 25, <<(<<"str", Item_baguette>>)>>)
        \o encode_varint(Len(LevelsXp))
        \o Concat([i \in 1..Len(LevelsXp) |-> pack_I(LevelsXp[i])])
        \o pack_f("1.0")
        \o create_price_data(100, 0, "None")
        \o encode_varint(1) \o WriteString(Flag_snow)
        \o <<255, 240>>
        \o create_bonuses_data(<<"1.5", "1.2", "2.0", "1.0", "100.0">>,
                               <<10000, 1, 1, 1, 1, 1, 1>>)

\* A LogicActionPoints card without the two bytes before its Bonuses
create_logic_action_points_card_data_NoSentinel ==
    <<22>> \o WriteString(ID_logic_action_points)
        \o pack_I(100) \o pack_I(5) \o pack_I(10) \o pack_I(1)
        \o pack_I(300) \o pack_I(2) \o pack_I(600)
        \o pack_f("80.0")
        \o create_bonuses_data(<<"1.2", "1.1", "1.8", "0.9", "120.0">>,
                               <<12000, 2, 2, 2, 2, 2, 2>>)

\* RCCServerEmulator.create_logic_action_points_card_data
create_logic_action_points_card_data ==
    <<22>> \o WriteString(ID_logic_action_points)
        \o pack_I(100) \o pack_I(5) \o pack_I(10) \o pack_I(1)
        \o pack_I(300) \o pack_I(2) \o pack_I(600)
        \o pack_f("80.0")
        \o <<255, 240>>
        \o create_bonuses_data(<<"1.2", "1.1", "1.8", "0.9", "120.0">>,
                               <<12000, 2, 2, 2, 2, 2, 2>>)

\* RCCServerEmulator.create_logic_chat_card_data; all_users is the result of
\* get_all_users (player ids, most recent login first)
create_logic_chat_card_data(all_users) ==
    LET star_players == IF all_users = <<>> THEN <<1>> ELSE all_users
    IN  <<30>> \o WriteString(ID_logic_chat)
            \o pack_I(10) \o pack_f("10.0") \o pack_f("300.0")
            \o encode_varint(Len(star_players))
            \o Concat([i \in 1..Len(star_players) |-> pack_I(star_players[i])])

\* RCCServerEmulator.create_logic_skins_card_data
create_logic_skins_card_data ==
    <<17>> \o WriteString(ID_skins)
        \o encode_varint(0) \o encode_varint(0) \o encode_varint(0)
        \o encode_varint(1)
        \o pack_f("1.0") \o pack_f("0.0") \o pack_f("0.0") \o pack_f("1.0")
        \o pack_f("0.0") \o pack_f("1.0") \o pack_f("0.0") \o pack_f("1.0")

\* A catalogue that announces 4 cards and leaves out the last one
CardsMessageContent_ThreeCards(all_users) ==
    <<101, 0>> \o encode_varint(4)
        \o create_logicmain_card_data
        \o create_logic_action_points_card_data
        \o create_logic_chat_card_data(all_users)

\* The message send_cards_to_service builds, before the VarInt prefix
CardsMessageContent(all_users) ==
    <<101, 0>> \o encode_varint(4)
        \o create_logicmain_card_data
        \o create_logic_action_points_card_data
        \o create_logic_chat_card_data(all_users)
        \o create_logic_skins_card_data

\* RCCServerEmulator.send_cards_to_service: the bytes handed to socket.send
send_cards_to_service(all_users) ==
    LET message_content == CardsMessageContent(all_users)
    IN  encode_varint(Len(message_content)) \o message_content

----------------------------------------------------------------------------
(* Identity store (UserDatabase).  users and player_data are the committed  *)
(* tables as sequences of rows in insertion order; sqlite_sequence is the  *)
(* AUTOINCREMENT counter of users.                                         *)

\* hashlib.sha256(access_token.encode()).hexdigest() if access_token else "":
\* the digest is kept symbolic, one digest per token
TokenHash(access_token) == IF access_token = "" THEN "" ELSE "sha256:" \o access_token

\* The SELECT of get_or_create_user with its LEFT JOIN: <<>> or <<result>>
SelectUser(us, pd, source_type, source_id) ==
    LET hits == SelectSeq(us, LAMBDA r : r.source_type = source_type /\ r.source_id = source_id)
    IN  IF hits = <<>> THEN <<>>
        ELSE LET u == hits[1]
                 names == SelectSeq(pd, LAMBDA p : p.player_id = u.player_id)
             IN  <<[player_id    |-> u.player_id,
                    user_state   |-> u.user_state,
                    access_level |-> u.access_level,
                    created_at   |-> u.created_at,
                    name         |-> IF names = <<>> THEN "Player" ELSE names[1].name]>>

\* An update that writes the row anew, creation time included
UpdateLogin_Recreate(us, player_id, token_hash, now) ==
    [i \in 1..Len(us) |->
        IF us[i].player_id = player_id
        THEN [us[i] EXCEPT !.last_login = now, !.access_token_hash = token_hash,
                           !.created_at = now]
        ELSE us[i]]

\* UPDATE users SET last_login = CURRENT_TIMESTAMP, access_token_hash = ? WHERE player_id = ?
UpdateLogin(us, player_id, token_hash, now) ==
    [i \in 1..Len(us) |->
        IF us[i].player_id = player_id
        THEN [us[i] EXCEPT !.last_login = now, !.access_token_hash = token_hash]
        ELSE us[i]]

\* A users table without the UNIQUE constraint
UniqueViolated_Dropped(us, source_type, source_id) == FALSE

\* UNIQUE(source_type, source_id) of the users table
UniqueViolated(us, source_type, source_id) ==
    \E i \in 1..Len(us) : us[i].source_type = source_type /\ us[i].source_id = source_id

\* A key that starts again from 1 at every insert
NextRowId_First(us, seqno) == 1

\* player_id INTEGER PRIMARY KEY AUTOINCREMENT: one more than the largest
\* rowid the table has ever held
NextRowId(us, seqno) ==
    LET ids == {us[i].player_id : i \in 1..Len(us)} \cup {seqno}
    IN  1 + (CHOOSE m \in ids : \A k \in ids : k <= m)

\* INSERT INTO users (...) VALUES (?, ?, ?, 1, 0)
InsertUser(us, seqno, source_type, source_id, token_hash, now) ==
    IF UniqueViolated(us, source_type, source_id)
    THEN [ok |-> FALSE, users |-> us, lastrowid |-> 0]
    ELSE LET pid == NextRowId(us, seqno)
         IN  [ok |-> TRUE,
              users |-> Append(us, [player_id         |-> pid,
                                    source_type       |-> source_type,
                                    source_id         |-> source_id,
                                    access_token_hash |-> token_hash,
                                    user_state        |-> 1,
                                    access_level      |-> 0,
                                    created_at        |-> now,
                                    last_login        |-> now]),
              lastrowid |-> pid]

\* A store that creates the users row and leaves player_data alone
InsertPlayerData_Dropped(pd, player_id, name) == pd

\* INSERT INTO player_data (player_id, name) VALUES (?, ?)
InsertPlayerData(pd, player_id, name) == Append(pd, [player_id |-> player_id, name |-> name])

\* The message of sqlite3.IntegrityError for the UNIQUE constraint, prefixed
\* as handle_login_service does: "Login error: UNIQUE constraint failed:
\* users.source_type, users.source_id" (UTF-8)
LoginErrorUnique ==
    <<76, 111, 103, 105, 110, 32, 101, 114, 114, 111, 114, 58, 32, 85, 78, 73, 81, 85, 69,
      32, 99, 111, 110, 115, 116, 114, 97, 105, 110, 116, 32, 102, 97, 105, 108, 101, 100,
      58, 32, 117, 115, 101, 114, 115, 46, 115, 111, 117, 114, 99, 101, 95, 116, 121, 112,
      101, 44, 32, 117, 115, 101, 114, 115, 46, 115, 111, 117, 114, 99, 101, 95, 105, 100>>

RECURSIVE SortByLastLoginDesc(_)
SortByLastLoginDesc(rows) ==
    IF rows = {} THEN <<>>
    ELSE LET r == CHOOSE x \in rows : \A y \in rows :
                      \/ x.last_login > y.last_login
                      \/ (x.last_login = y.last_login /\ x.player_id <= y.player_id)
         IN  <<r.player_id>> \o SortByLastLoginDesc(rows \ {r})

\* UserDatabase.get_all_users, reduced to the player ids that
\* create_logic_chat_card_data keeps (ORDER BY last_login DESC)
get_all_users(us) == SortByLastLoginDesc({us[i] : i \in 1..Len(us)})

----------------------------------------------------------------------------
(* Message dispatcher (process_tcp_message) and the stateless handlers *)

KnownServiceIds == {100, 101, 102, 103, 104, 105, 106, 107, 108, 109}
GenericServiceIds == {102, 103, 104, 105, 106, 107, 109}

\* process_tcp_message up to the choice of handler, for len(data) >= 3:
\* the service id, the message offset, the RPC id and the two slices
ParseHeader(data) ==
    LET potential_service_id == data[3]
        first_byte_service_id == data[1]
        third == potential_service_id \in KnownServiceIds
        first == first_byte_service_id \in KnownServiceIds
        service_id == IF third THEN potential_service_id
                      ELSE IF first THEN first_byte_service_id
                      ELSE potential_service_id
        message_offset == IF third THEN 2 ELSE IF first THEN 0 ELSE 2
        rpc_id_offset == message_offset + 1
        rpc_id == IF Len(data) >= rpc_id_offset + 2
                  THEN unpack_H(PySlice(data, rpc_id_offset, rpc_id_offset + 2))
                  ELSE 0
        actual_data == IF message_offset > 0 THEN PyFrom(data, message_offset) ELSE data
        payload_data == IF Len(actual_data) > 3 THEN PyFrom(actual_data, 3) ELSE <<>>
    IN  [service_id     |-> service_id,
         message_offset |-> message_offset,
         rpc_id         |-> rpc_id,
         actual_data    |-> actual_data,
         payload_data   |-> payload_data]

\* A generic handler that answers with status 1
handle_generic_service_Status1(service_id, rpc_id, data) == pack_H(rpc_id) \o <<1>>

\* RCCServerEmulator.handle_generic_service
handle_generic_service(service_id, rpc_id, data) == pack_H(rpc_id) \o <<0>>

\* A ServiceGame handler that acknowledges every function but Subscribe
handle_service_game_Ack(data) ==
    IF Len(data) < 2 THEN <<>>
    ELSE IF data[2] = 0 THEN <<>> ELSE <<0, 0, 0>>

\* RCCServerEmulator.handle_service_game: b'' on every path
handle_service_game(data) ==
    IF Len(data) < 2 THEN <<>>
    ELSE LET function_id == data[2]
         IN  IF function_id = 0 THEN <<>> ELSE <<>>

\* process_tcp_message for every service but ServiceLogin: <<response, service_id>>,
\* with None as the empty response (the caller tests "if response")
process_tcp_message(data) ==
    IF Len(data) < 3 THEN <<(<<>>), 0>>
    ELSE LET h == ParseHeader(data)
         IN  IF h.service_id = 108
             THEN <<handle_service_game(h.actual_data), h.service_id>>
             ELSE <<handle_generic_service(h.service_id, h.rpc_id, h.payload_data), h.service_id>>

\* process_tcp_message hands the message to handle_login_service
IsLoginMessage(data) == Len(data) >= 3 /\ ParseHeader(data).service_id = 100

----------------------------------------------------------------------------
(* Login handler (handle_login_service) *)

\* 76561197960265728 and 76561297960265728 as struct.pack('<Q', .)
MinSteamId == <<0, 0, 0, 0, 1, 0, 16, 1>>
MaxSteamId == <<0, 232, 118, 72, 24, 0, 16, 1>>

\* client_id = f"tcp_client_{address[0]}_{address[1]}" as its parts between
\* underscores; every client reaches the listener on 127.0.0.1 from 127.0.0.1
ClientId(client_port) == <<"tcp", "client", "127.0.0.1", NatStr(client_port)>>

\* client_id.split('_')[-1]
SplitLast(client_id) == client_id[Len(client_id)]

\* hash(data) of a bytes object is salted per process; this fixed function
\* stands for the one the process happens to run with
RECURSIVE PyHashFrom(_, _, _)
PyHashFrom(data, i, acc) ==
    IF i > Len(data) \/ acc < 0 THEN acc
    ELSE PyHashFrom(data, i + 1, (2 * acc + data[i]) % 1000003)

PyHash(data) == PyHashFrom(data, 1, 7)

\* 0 < struct.unpack('<I', b)[0] < limit, for limit <= 2^24
U32Between(b, limit) ==
    /\ b[4] = 0
    /\ b[1] + 256 * b[2] + 65536 * b[3] > 0
    /\ b[1] + 256 * b[2] + 65536 * b[3] < limit

\* A parse that rejects every protocol version but 34
ParseLogin_Strict(data) ==
    IF Len(data) < 14 \/ data[2] # 34
    THEN [raised |-> TRUE, source_id |-> "", access_token |-> "", protocol_version |-> 0]
    ELSE [raised |-> FALSE, source_id |-> StrQ(PySlice(data, 6, 14)),
          access_token |-> Hex(PyFrom(data, 14)), protocol_version |-> data[2]]

\* The first try block of handle_login_service: the parsed fields, or raised
ParseLogin(data) ==
    IF Len(data) < 14 THEN [raised |-> TRUE, source_id |-> "", access_token |-> "",
                            protocol_version |-> 0]
    ELSE LET protocol_version == data[2]
             steam_id_offset == 6
             steam_id == PySlice(data, steam_id_offset, steam_id_offset + 8)
             token_offset == steam_id_offset + 8
             invalid == LessQ(steam_id, MinSteamId) \/ LessQ(MaxSteamId, steam_id)
             source_id == IF invalid THEN "steam_fallback_" \o StrQ(steam_id) ELSE StrQ(steam_id)
             remaining_data_length == Len(data) - token_offset
             prefixed == /\ remaining_data_length >= 4
                         /\ U32Between(PySlice(data, token_offset, token_offset + 4),
                                       Min(remaining_data_length, 10000))
             potential_length == data[token_offset + 1] + 256 * data[token_offset + 2]
             access_token_data ==
                 IF prefixed
                 THEN PySlice(data, token_offset + 4, token_offset + 4 + potential_length)
                 ELSE PyFrom(data, token_offset)
         IN  IF remaining_data_length <= 0
             THEN [raised |-> TRUE, source_id |-> "", access_token |-> "",
                   protocol_version |-> protocol_version]
             ELSE [raised |-> FALSE, source_id |-> source_id,
                   access_token |-> Hex(access_token_data),
                   protocol_version |-> protocol_version]

\* A handler that names the fallback identity of a failed parse after a raw
\* account value instead of the client port
LoginIdentity_RawFallback(data, client_id) ==
    LET p == ParseLogin(data)
    IN  IF p.raised
        THEN [source_type  |-> "Steam",
              source_id    |-> "steam_fallback_0",
              access_token |-> "token_" \o NatStr(PyHash(data) % 1000000000)]
        ELSE [source_type |-> "Steam", source_id |-> p.source_id,
              access_token |-> p.access_token]

\* handle_login_service up to the call of get_or_create_user: the identity and
\* the token it hands to the store (the except branch builds the fallback)
LoginIdentity(data, client_id) ==
    LET p == ParseLogin(data)
    IN  IF p.raised
        THEN [source_type  |-> "Steam",
              source_id    |-> "steam_error_" \o SplitLast(client_id),
              access_token |-> "token_" \o NatStr(PyHash(data) % 1000000000)]
        ELSE [source_type |-> "Steam", source_id |-> p.source_id,
              access_token |-> p.access_token]

\* A success reply with AccessLevel written before UserState
LoginReply_Swapped(rpc_id, player_id, user_data) ==
    LET message_content ==
            <<100, 0>> \o pack_H(rpc_id) \o <<0>> \o pack_I(player_id)
                \o <<user_data.access_level, user_data.user_state>>
    IN  encode_varint(Len(message_content)) \o message_content

\* The success reply of handle_login_service
LoginReply(rpc_id, player_id, user_data) ==
    LET message_content ==
            <<100, 0>> \o pack_H(rpc_id) \o <<0>> \o pack_I(player_id)
                \o <<user_data.user_state, user_data.access_level>>
    IN  encode_varint(Len(message_content)) \o message_content

\* A failure reply without the VarInt length prefix
create_login_error_response_Bare(rpc_id, error_bytes) ==
    <<100, 0>> \o pack_H(rpc_id) \o <<255>> \o pack_I(Len(error_bytes)) \o error_bytes

\* RCCServerEmulator.create_login_error_response
create_login_error_response(rpc_id, error_bytes) ==
    LET message_content ==
            <<100, 0>> \o pack_H(rpc_id) \o <<255>> \o pack_I(Len(error_bytes)) \o error_bytes
    IN  encode_varint(Len(message_content)) \o message_content

\* handle_tcp_client, after a response was sent: the new value of logged_in
RECURSIVE SkipVarInt(_, _)
SkipVarInt(response, varint_offset) ==
    IF varint_offset < Len(response) /\ response[varint_offset + 1] >= 128
    THEN SkipVarInt(response, varint_offset + 1)
    ELSE varint_offset + 1

\* A test that takes any ServiceLogin reply for a successful login
LoggedInAfter_AnyStatus(logged_in_before, response, service_id) ==
    IF Len(response) >= 7
    THEN LET message_start == SkipVarInt(response, 0)
         IN  IF /\ Len(response) >= message_start + 5
                /\ response[message_start + 1] = 100
                /\ response[message_start + 2] = 0
                /\ service_id \in {100, 177}
             THEN TRUE
             ELSE logged_in_before
    ELSE logged_in_before

\* client_socket.send(response) on an open socket: what the peer has been sent
send_AtFront(sent, response) == <<response>> \o sent

\* A send that transmits its response twice
send_Twice(sent, response) == Append(Append(sent, response), response)

send(sent, response) == Append(sent, response)

LoggedInAfter(logged_in_before, response, service_id) ==
    IF Len(response) >= 7
    THEN LET message_start == SkipVarInt(response, 0)
         IN  IF /\ Len(response) >= message_start + 5
                /\ response[message_start + 1] = 100
                /\ response[message_start + 2] = 0
                /\ response[message_start + 5] = 0
                /\ service_id \in {100, 177}
             THEN TRUE
             ELSE logged_in_before
    ELSE logged_in_before

----------------------------------------------------------------------------
(* What the clients send *)

Conns == {1, 2}
ClientPorts == {50001, 50002}

SteamA == <<143, 33, 181, 10, 1, 0, 16, 1>>
SteamB == <<144, 33, 181, 10, 1, 0, 16, 1>>
SteamLow == <<210, 4, 0, 0, 0, 0, 0, 0>>

\* The frame codec of the client: VarInt length, then the payload
Frame(payload) == encode_varint(Len(payload)) \o payload

\* A login request as the client builds it: ServiceID 100, FunctionID 0,
\* RPCID, the protocol block, the account and the token
LoginRequest(rpc_lo, rpc_hi, protocol, account, token) ==
    <<100, 0, rpc_lo, rpc_hi, protocol, 0, 0, 0, 5>> \o account \o token

\* A token long enough for the login frame to need a two-byte VarInt
LongToken == Tup([i \in 1..111 |-> 171])

\* Messages handle_login_service receives: two framed logins of account A,
\* a bare login of A without token, a login of B behind a two-byte wrapper
\* with a length-prefixed token, a bare login of an account outside the
\* Steam range, a login too short to parse
LoginInputs ==
    { Frame(LoginRequest(0, 0, 34, SteamA, LongToken)),
      Frame(LoginRequest(1, 0, 35, SteamA, LongToken)),
      LoginRequest(0, 0, 34, SteamA, <<>>),
      <<177, 2>> \o LoginRequest(0, 0, 34, SteamB, <<2, 0, 0, 0, 171, 205, 9>>),
      LoginRequest(0, 2, 34, SteamLow, <<7>>),
      <<100, 0, 0, 0, 34>> }

\* Every other message: framed and bare requests to generic services, to
\* ServiceGame, to ServiceCards, to no service, a short login frame, the
\* over-long VarInt, a message of two bytes and two frames that arrive in
\* one read
OtherInputs ==
    { Frame(<<104, 0, 0, 0>>), Frame(<<104, 0, 1, 0>>), Frame(<<104, 108, 1, 0>>),
      Frame(<<104, 0>>), <<104, 0, 1, 0>>, <<104, 0, 108, 0>>,
      <<255, 255, 255, 1, 104, 0, 0, 0>>,
      <<108, 0, 0>>, <<177, 2, 108, 7>>, Frame(<<108, 0>>),
      <<101, 0, 0>>, <<200, 0, 0, 0>>,
      Frame(LoginRequest(5, 0, 34, SteamA, <<171, 205>>)),
      <<255, 255, 255, 255, 255>>, <<104, 0>>,
      Frame(<<104, 0, 0, 0>>) \o Frame(<<104, 0, 1, 0>>) }

Inputs == LoginInputs \cup OtherInputs

\* The messages of a run of logins only: an account outside the Steam range
\* and account A
RetryInputs ==
    { LoginRequest(0, 2, 34, SteamLow, <<7>>),
      Frame(LoginRequest(0, 0, 34, SteamA, LongToken)) }

----------------------------------------------------------------------------
(* State *)

VARIABLES
    tcp_server_running,  \* RCCServerEmulator.tcp_server_running
    listener,            \* the listening socket: "listening" or "closed"
    tcp_clients,         \* RCCServerEmulator.tcp_clients: client port -> connection
    users,               \* rows of the users table
    player_data,         \* rows of the player_data table
    sqlite_sequence,     \* largest player_id AUTOINCREMENT has handed out
    clock,               \* CURRENT_TIMESTAMP, one tick per committed login
    pc,                  \* position of the handler thread of each connection
    port,                \* client port of each connection
    sock,                \* the accepted socket: "none", "open" or "closed"
    logged_in,           \* the local logged_in of handle_tcp_client
    written,             \* the send calls on each connection, in order
    last,                \* the last loop iteration of each handler
    reads,               \* number of recv calls that returned data
    received,            \* number of recv calls that returned data, on each connection
    workload,            \* what the clients send in this run: "mixed" or "logins"
    issued,              \* <<account bytes, PlayerID>> of every success reply
    resolved,            \* <<source_type, source_id>> of every returned get_or_create_user
    encoder_call,        \* the encoder called last on its own, and its arguments
    encoder_out,         \* what that call returned
    policy_server_running,  \* RCCServerEmulator.policy_server_running
    policy_listener,     \* the listening socket of the policy port
    policy_thread,       \* where the policy thread is: "accept", "serve" or "exit"
    policy_sock,         \* each policy connection: "none", "queued", "accepted", "closed"
    policy_peer,         \* its client: "none", "connected" or "reset"
    policy_written,      \* the bytes sent on it
    policy_unread,       \* the bytes its client sent, waiting in the receive buffer
    connected_clients,   \* RCCServerEmulator.connected_clients: n of "client_n" -> WebSocket
    ws_state,            \* each WebSocket: "none", "accepting", "connected", "gone", "closed"
    ws_client_id,        \* the local client_id of its handle_websocket: the n of "client_n"
    ws_received,         \* the JSON messages its client has been sent
    ws_messages          \* number of messages the clients have sent

vars == <<tcp_server_running, listener, tcp_clients, users, player_data, sqlite_sequence,
          clock, pc, port, sock, logged_in, written, last, reads, received, workload,
          issued, resolved, encoder_call, encoder_out, policy_server_running, policy_listener,
          policy_thread, policy_sock, policy_peer, policy_written, policy_unread,
          connected_clients, ws_state, ws_client_id, ws_received, ws_messages>>

ws_vars == <<connected_clients, ws_state, ws_client_id, ws_received, ws_messages>>

\* WebSocket connections, in the order the clients connect
WsConns == {1, 2, 3}

policy_vars == <<policy_server_running, policy_listener, policy_thread, policy_sock,
                 policy_peer, policy_written, policy_unread>>

tcp_vars == <<tcp_server_running, listener, tcp_clients, users, player_data,
              sqlite_sequence, clock, pc, port, sock, logged_in, written, last, reads,
              received, workload, issued, resolved, encoder_call, encoder_out>>

\* Connections to the policy port, in the order the clients connect
PolicyConns == {1, 2, 3}

\* No encoder has been called
NoCall == [op |-> "none", args |-> <<>>]

NoLast ==
    [event |-> "none", data |-> <<>>, service_id |-> 0, rpc_id |-> 0, payload |-> <<>>,
     source_id |-> "", access_token |-> "", result |-> <<>>, response |-> <<>>]

\* The state once start_tcp_server is about to accept, on a fresh database
Init ==
    /\ tcp_server_running = TRUE
    /\ listener = "listening"
    /\ tcp_clients = <<>>
    /\ users = <<>>
    /\ player_data = <<>>
    /\ sqlite_sequence = 0
    /\ clock = 1
    /\ pc = [c \in Conns |-> "none"]
    /\ port = [c \in Conns |-> 0]
    /\ sock = [c \in Conns |-> "none"]
    /\ logged_in = [c \in Conns |-> FALSE]
    /\ written = [c \in Conns |-> <<>>]
    /\ last = [c \in Conns |-> NoLast]
    /\ reads = 0
    /\ received = [c \in Conns |-> 0]
    /\ workload \in {"mixed", "logins"}
    /\ issued = {}
    /\ resolved = {}
    /\ encoder_call = NoCall
    /\ encoder_out = <<>>
    /\ policy_server_running = TRUE
    /\ policy_listener = "listening"
    /\ policy_thread = "accept"
    /\ policy_sock = [c \in PolicyConns |-> "none"]
    /\ policy_peer = [c \in PolicyConns |-> "none"]
    /\ policy_written = [c \in PolicyConns |-> <<>>]
    /\ policy_unread = [c \in PolicyConns |-> <<>>]
    /\ connected_clients = <<>>
    /\ ws_state = [w \in WsConns |-> "none"]
    /\ ws_client_id = [w \in WsConns |-> 0]
    /\ ws_received = [w \in WsConns |-> <<>>]
    /\ ws_messages = 0

Live(c) == pc[c] \in {"start", "loop", "login"}

\* The messages the clients may send in this run, and how many
Offered == IF workload = "mixed" THEN Inputs ELSE RetryInputs
ReadLimit == IF workload = "mixed" THEN MaxReads ELSE MaxLoginReads

\* A finally block that closes the socket and keeps the client tracked
Cleanup_KeepTracked(c) ==
    /\ pc' = [pc EXCEPT ![c] = "closed"]
    /\ sock' = [sock EXCEPT ![c] = "closed"]
    /\ tcp_clients' = tcp_clients

\* The finally block of handle_tcp_client
Cleanup(c) ==
    /\ pc' = [pc EXCEPT ![c] = "closed"]
    /\ sock' = [sock EXCEPT ![c] = "closed"]
    /\ tcp_clients' = [q \in DOMAIN tcp_clients \ {port[c]} |-> tcp_clients[q]]

----------------------------------------------------------------------------
(* Operations *)

\* start_tcp_server: one pass of the accept loop. The loop tests
\* tcp_server_running only after accept returns, so a listener blocked in
\* accept serves one connection after stop_tcp_server and then closes.
Accept(c, p) ==
    /\ UNCHANGED <<workload, received, encoder_call, encoder_out, policy_vars, ws_vars>>
    /\ listener = "listening"
    /\ pc[c] = "none"
    /\ \A d \in Conns : d < c => pc[d] # "none"
    /\ \A d \in Conns : Live(d) => port[d] # p
    /\ tcp_clients' = [q \in DOMAIN tcp_clients \cup {p} |->
                          IF q = p THEN c ELSE tcp_clients[q]]
    /\ port' = [port EXCEPT ![c] = p]
    /\ sock' = [sock EXCEPT ![c] = "open"]
    /\ pc' = [pc EXCEPT ![c] = "start"]
    /\ listener' = IF tcp_server_running THEN "listening" ELSE "closed"
    /\ UNCHANGED <<tcp_server_running, users, player_data, sqlite_sequence, clock,
                   logged_in, written, last, reads, issued, resolved>>

\* A handler that enters its loop without pushing the catalogue
HandlerStart_NoPush(c) ==
    /\ UNCHANGED <<workload, received, encoder_call, encoder_out, policy_vars, ws_vars>>
    /\ pc[c] = "start"
    /\ IF sock[c] = "open"
       THEN /\ logged_in' = [logged_in EXCEPT ![c] = FALSE]
            /\ pc' = [pc EXCEPT ![c] = "loop"]
            /\ UNCHANGED <<sock, tcp_clients>>
       ELSE /\ Cleanup(c)
            /\ UNCHANGED logged_in
    /\ UNCHANGED <<tcp_server_running, listener, users, player_data, sqlite_sequence,
                   clock, port, written, last, reads, issued, resolved>>

\* handle_tcp_client up to the loop: send_cards_to_service, settimeout,
\* logged_in = False. On a socket stop_tcp_server has closed, the send fails
\* inside send_cards_to_service (which swallows it) and settimeout raises.
HandlerStart(c) ==
    /\ UNCHANGED <<workload, received, encoder_call, encoder_out, policy_vars, ws_vars>>
    /\ pc[c] = "start"
    /\ IF sock[c] = "open"
       THEN /\ written' = [written EXCEPT
                   ![c] = Append(@, send_cards_to_service(get_all_users(users)))]
            /\ logged_in' = [logged_in EXCEPT ![c] = FALSE]
            /\ pc' = [pc EXCEPT ![c] = "loop"]
            /\ UNCHANGED <<sock, tcp_clients>>
       ELSE /\ Cleanup(c)
            /\ UNCHANGED <<written, logged_in>>
    /\ UNCHANGED <<tcp_server_running, listener, users, player_data, sqlite_sequence,
                   clock, port, last, reads, issued, resolved>>

\* One loop iteration that receives a message for any service but
\* ServiceLogin: recv, process_tcp_message, send if the response is not
\* empty, the logged_in test
RecvMessage(c, data) ==
    /\ UNCHANGED <<workload, encoder_call, encoder_out, policy_vars, ws_vars>>
    /\ pc[c] = "loop"
    /\ tcp_server_running
    /\ sock[c] = "open"
    /\ reads < ReadLimit
    /\ data \in Offered
    /\ ~IsLoginMessage(data)
    /\ LET r == process_tcp_message(data)
           response == r[1]
           service_id == r[2]
       IN  /\ written' = [written EXCEPT
                  ![c] = IF response # <<>> THEN send(@, response) ELSE @]
           /\ logged_in' = [logged_in EXCEPT
                  ![c] = IF response # <<>> THEN LoggedInAfter(@, response, service_id) ELSE @]
           /\ last' = [last EXCEPT
                  ![c] = [NoLast EXCEPT !.event = "message", !.data = data,
                                        !.service_id = service_id,
                                        !.rpc_id = IF Len(data) >= 3
                                                   THEN ParseHeader(data).rpc_id ELSE 0,
                                        !.response = response]]
    /\ reads' = reads + 1
    /\ received' = [received EXCEPT ![c] = @ + 1]
    /\ UNCHANGED <<tcp_server_running, listener, tcp_clients, users, player_data,
                   sqlite_sequence, clock, pc, port, sock, issued, resolved>>

\* A loop iteration that receives a login, up to the SELECT of
\* get_or_create_user: recv, process_tcp_message, the parse of
\* handle_login_service, the SELECT
RecvLogin(c, data) ==
    /\ UNCHANGED <<workload, encoder_call, encoder_out, policy_vars, ws_vars>>
    /\ pc[c] = "loop"
    /\ tcp_server_running
    /\ sock[c] = "open"
    /\ reads < ReadLimit
    /\ data \in Offered
    /\ IsLoginMessage(data)
    /\ LET h == ParseHeader(data)
           id == LoginIdentity(h.payload_data, ClientId(port[c]))
       IN  last' = [last EXCEPT
               ![c] = [NoLast EXCEPT !.event = "login_select", !.data = data,
                                     !.service_id = h.service_id, !.rpc_id = h.rpc_id,
                                     !.payload = h.payload_data,
                                     !.source_id = id.source_id,
                                     !.access_token = id.access_token,
                                     !.result = SelectUser(users, player_data,
                                                           id.source_type, id.source_id)]]
    /\ pc' = [pc EXCEPT ![c] = "login"]
    /\ reads' = reads + 1
    /\ received' = [received EXCEPT ![c] = @ + 1]
    /\ UNCHANGED <<tcp_server_running, listener, tcp_clients, users, player_data,
                   sqlite_sequence, clock, port, sock, logged_in, written, issued, resolved>>

\* get_or_create_user after its SELECT returned result: the UPDATE, or the
\* two INSERTs, and the commit; a failed INSERT rolls back and raises
get_or_create_user(us, pd, seqno, now, result, source_type, source_id, access_token) ==
    LET token_hash == TokenHash(access_token)
    IN  IF result # <<>>
        THEN [raised |-> FALSE,
              users |-> UpdateLogin(us, result[1].player_id, token_hash, now),
              player_data |-> pd, sqlite_sequence |-> seqno,
              player_id |-> result[1].player_id,
              user_state |-> result[1].user_state,
              access_level |-> result[1].access_level]
        ELSE LET ins == InsertUser(us, seqno, source_type, source_id, token_hash, now)
                 player_id == ins.lastrowid
                 default_name == "Player" \o NatStr(player_id)
             IN  IF ins.ok
                 THEN [raised |-> FALSE, users |-> ins.users,
                       player_data |-> InsertPlayerData(pd, player_id, default_name),
                       sqlite_sequence |-> player_id, player_id |-> player_id,
                       user_state |-> 1, access_level |-> 0]
                 ELSE [raised |-> TRUE, users |-> us, player_data |-> pd,
                       sqlite_sequence |-> seqno, player_id |-> 0,
                       user_state |-> 0, access_level |-> 0]

\* The second try block of handle_login_service, given what the store did
LoginResponse(rpc_id, g) ==
    IF g.raised THEN create_login_error_response(rpc_id, LoginErrorUnique)
    ELSE LoginReply(rpc_id, g.player_id, g)

\* The rest of a login iteration: get_or_create_user after its SELECT, the
\* reply, send, the logged_in test. send raises on a socket that
\* stop_tcp_server closed in the meantime; the store keeps what was committed.
LoginFinish(c) ==
    /\ UNCHANGED <<workload, received, encoder_call, encoder_out, policy_vars, ws_vars>>
    /\ pc[c] = "login"
    /\ LET l == last[c]
           g == get_or_create_user(users, player_data, sqlite_sequence, clock, l.result,
                                   "Steam", l.source_id, l.access_token)
           response == LoginResponse(l.rpc_id, g)
       IN  /\ users' = g.users
           /\ player_data' = g.player_data
           /\ sqlite_sequence' = g.sqlite_sequence
           /\ clock' = IF g.raised THEN clock ELSE clock + 1
           /\ resolved' = IF g.raised THEN resolved
                          ELSE resolved \cup {<<"Steam", l.source_id>>}
           /\ IF sock[c] = "open"
              THEN /\ written' = [written EXCEPT ![c] = send(@, response)]
                   /\ logged_in' = [logged_in EXCEPT
                          ![c] = LoggedInAfter(@, response, l.service_id)]
                   /\ last' = [last EXCEPT
                          ![c] = [l EXCEPT !.event = IF g.raised THEN "login_failed"
                                                     ELSE "login_ok",
                                           !.response = response]]
                   /\ issued' = IF g.raised \/ Len(l.payload) < 14 THEN issued
                                ELSE issued \cup {<<PySlice(l.payload, 6, 14), g.player_id>>}
                   /\ pc' = [pc EXCEPT ![c] = "loop"]
                   /\ UNCHANGED <<sock, tcp_clients>>
              ELSE /\ Cleanup(c)
                   /\ UNCHANGED <<written, logged_in, last, issued>>
    /\ UNCHANGED <<tcp_server_running, listener, port, reads>>

\* A handler that leaves its loop on a read timeout
Timeout_Fatal(c) ==
    /\ UNCHANGED <<workload, received, encoder_call, encoder_out, policy_vars, ws_vars>>
    /\ pc[c] = "loop"
    /\ tcp_server_running
    /\ sock[c] = "open"
    /\ Cleanup(c)
    /\ last' = [last EXCEPT ![c] = [NoLast EXCEPT !.event = "timeout"]]
    /\ UNCHANGED <<tcp_server_running, listener, users, player_data, sqlite_sequence,
                   clock, port, logged_in, written, reads, issued, resolved>>

\* recv raises socket.timeout after 30 s of silence: continue
Timeout(c) ==
    /\ UNCHANGED <<workload, received, encoder_call, encoder_out, policy_vars, ws_vars>>
    /\ pc[c] = "loop"
    /\ tcp_server_running
    /\ sock[c] = "open"
    /\ last' = [last EXCEPT ![c] = [NoLast EXCEPT !.event = "timeout"]]
    /\ UNCHANGED <<tcp_server_running, listener, tcp_clients, users, player_data,
                   sqlite_sequence, clock, pc, port, sock, logged_in, written, reads,
                   issued, resolved>>

\* recv returns b'' (the peer closed): break, then the finally block
PeerClose(c) ==
    /\ UNCHANGED <<workload, received, encoder_call, encoder_out, policy_vars, ws_vars>>
    /\ pc[c] = "loop"
    /\ tcp_server_running
    /\ sock[c] = "open"
    /\ Cleanup(c)
    /\ last' = [last EXCEPT ![c] = [NoLast EXCEPT !.event = "peer_closed"]]
    /\ UNCHANGED <<tcp_server_running, listener, users, player_data, sqlite_sequence,
                   clock, port, logged_in, written, reads, issued, resolved>>

\* recv raises anything but socket.timeout (reset by the peer):
\* break, then the finally block
RecvError(c) ==
    /\ UNCHANGED <<workload, received, encoder_call, encoder_out, policy_vars, ws_vars>>
    /\ pc[c] = "loop"
    /\ tcp_server_running
    /\ sock[c] = "open"
    /\ Cleanup(c)
    /\ last' = [last EXCEPT ![c] = [NoLast EXCEPT !.event = "recv_error"]]
    /\ UNCHANGED <<tcp_server_running, listener, users, player_data, sqlite_sequence,
                   clock, port, logged_in, written, reads, issued, resolved>>

\* A handler that leaves its loop after stop_tcp_server and closes its socket
\* without removing itself from tcp_clients
LoopExit_KeepTracked(c) ==
    /\ UNCHANGED <<workload, received, encoder_call, encoder_out, policy_vars, ws_vars>>
    /\ pc[c] = "loop"
    /\ ~tcp_server_running
    /\ pc' = [pc EXCEPT ![c] = "closed"]
    /\ sock' = [sock EXCEPT ![c] = "closed"]
    /\ UNCHANGED <<tcp_server_running, listener, tcp_clients, users, player_data,
                   sqlite_sequence, clock, port, logged_in, written, last, reads, issued,
                   resolved>>

\* The handler after stop_tcp_server: the loop condition is false, or recv
\* fails on the socket stop_tcp_server closed; then the finally block
LoopExit(c) ==
    /\ UNCHANGED <<workload, received, encoder_call, encoder_out, policy_vars, ws_vars>>
    /\ pc[c] = "loop"
    /\ ~tcp_server_running
    /\ Cleanup(c)
    /\ UNCHANGED <<tcp_server_running, listener, users, player_data, sqlite_sequence,
                   clock, port, logged_in, written, last, reads, issued, resolved>>

\* RCCServerEmulator.stop_tcp_server
stop_tcp_server ==
    /\ UNCHANGED <<workload, received, encoder_call, encoder_out, policy_vars, ws_vars>>
    /\ tcp_server_running
    /\ tcp_server_running' = FALSE
    /\ sock' = [c \in Conns |->
                   IF \E q \in DOMAIN tcp_clients : tcp_clients[q] = c
                   THEN "closed" ELSE sock[c]]
    /\ UNCHANGED <<listener, tcp_clients, users, player_data, sqlite_sequence, clock,
                   pc, port, logged_in, written, last, reads, issued, resolved>>

Next ==
    \/ \E c \in Conns, p \in ClientPorts : Accept(c, p)
    \/ \E c \in Conns : HandlerStart(c)
    \/ \E c \in Conns, data \in Inputs : RecvMessage(c, data)
    \/ \E c \in Conns, data \in Inputs : RecvLogin(c, data)
    \/ \E c \in Conns : LoginFinish(c)
    \/ \E c \in Conns : Timeout(c)
    \/ \E c \in Conns : PeerClose(c)
    \/ \E c \in Conns : RecvError(c)
    \/ \E c \in Conns : LoopExit(c)
    \/ stop_tcp_server

Spec == Init /\ [][Next]_vars

\* A run of logins that ends in a shutdown
ShutdownInit == Init /\ workload = "logins"

ShutdownNext ==
    \/ \E c \in Conns, p \in ClientPorts : Accept(c, p)
    \/ \E c \in Conns : HandlerStart(c)
    \/ \E c \in Conns, data \in RetryInputs : RecvLogin(c, data)
    \/ \E c \in Conns : LoginFinish(c)
    \/ \E c \in Conns : Timeout(c)
    \/ \E c \in Conns : PeerClose(c)
    \/ \E c \in Conns : RecvError(c)
    \/ \E c \in Conns : LoopExit(c)
    \/ stop_tcp_server

\* The game port with its handler threads scheduled fairly: a thread that can
\* take its next step without waiting for a client takes it. After
\* stop_tcp_server the recv of LoopExit fails at once on a closed socket and
\* returns within its 30 s timeout on an open one.
ShutdownSpec ==
    /\ ShutdownInit /\ [][ShutdownNext]_vars
    /\ \A c \in Conns :
           WF_vars(HandlerStart(c)) /\ WF_vars(LoginFinish(c)) /\ WF_vars(LoopExit(c))

----------------------------------------------------------------------------
(* The encoders called on their own, once in a run, on the values below *)

\* The small values, and the values around every change of encoded length
\* up to the largest 31-bit one
VarIntInputs ==
    (0..MaxSmallVarInt)
        \cup {16383, 16384, 2097151, 2097152, 268435455, 268435456, 2147483647}

\* The card ids, item ids and flag the catalogue hashes or names, and ""
CrcInputs ==
    {ID_logic_main, ID_logic_action_points, ID_logic_chat, ID_skins,
     Item_fred, Item_baguette, Flag_snow, <<>>}

Call_encode_varint(value) ==
    /\ encoder_call = NoCall
    /\ encoder_call' = [op |-> "encode_varint", args |-> <<value>>]
    /\ encoder_out' = encode_varint(value)
    /\ UNCHANGED <<tcp_server_running, listener, tcp_clients, users, player_data,
                   sqlite_sequence, clock, pc, port, sock, logged_in, written, last,
                   reads, received, workload, issued, resolved, policy_vars, ws_vars>>

Call_calculate_crc32_hash(text_bytes) ==
    /\ encoder_call = NoCall
    /\ encoder_call' = [op |-> "calculate_crc32_hash", args |-> <<text_bytes>>]
    /\ encoder_out' = calculate_crc32_hash(text_bytes)
    /\ UNCHANGED <<tcp_server_running, listener, tcp_clients, users, player_data,
                   sqlite_sequence, clock, pc, port, sock, logged_in, written, last,
                   reads, received, workload, issued, resolved, policy_vars, ws_vars>>

\* Field values of the three inline records: the ones the cards use, the
\* ends of the i32 range, a falsy 0.0 sale, items given as IDs and as hashes
RewardInts == {0, 100, -1, 2147483647}
RewardItems ==
    {<<>>,
     <<(<<"str", Item_fred>>)>>,
     <<(<<"str", Item_baguette>>), (<<"int", 0>>)>>,
     <<(<<"int", 2147483647>>), (<<"str", Item_fred>>), (<<"str", Flag_snow>>)>>}
PriceSales == {"None", "0.0", "1.5"}
BonusRates ==
    {<<"1.5", "1.2", "2.0", "1.0", "100.0">>, <<"1.2", "1.1", "1.8", "0.9", "120.0">>,
     <<"0.0", "0.0", "0.0", "0.0", "0.0">>}
BonusStats ==
    {<<10000, 1, 1, 1, 1, 1, 1>>, <<12000, 2, 2, 2, 2, 2, 2>>,
     <<0, -1, 2147483647, -2147483647, 1, 2, 3>>}

Call_create_reward_data(coins, skill_tickets, xp, ap, items) ==
    /\ encoder_call = NoCall
    /\ encoder_call' = [op |-> "create_reward_data",
                        args |-> <<coins, skill_tickets, xp, ap, items>>]
    /\ encoder_out' = create_reward_data(coins, skill_tickets, xp, ap, items)
    /\ UNCHANGED <<tcp_server_running, listener, tcp_clients, users, player_data,
                   sqlite_sequence, clock, pc, port, sock, logged_in, written, last,
                   reads, received, workload, issued, resolved, policy_vars, ws_vars>>

Call_create_price_data(coins, skill_tickets, sale) ==
    /\ encoder_call = NoCall
    /\ encoder_call' = [op |-> "create_price_data", args |-> <<coins, skill_tickets, sale>>]
    /\ encoder_out' = create_price_data(coins, skill_tickets, sale)
    /\ UNCHANGED <<tcp_server_running, listener, tcp_clients, users, player_data,
                   sqlite_sequence, clock, pc, port, sock, logged_in, written, last,
                   reads, received, workload, issued, resolved, policy_vars, ws_vars>>

Call_create_bonuses_data(rates, stats) ==
    /\ encoder_call = NoCall
    /\ encoder_call' = [op |-> "create_bonuses_data", args |-> <<rates, stats>>]
    /\ encoder_out' = create_bonuses_data(rates, stats)
    /\ UNCHANGED <<tcp_server_running, listener, tcp_clients, users, player_data,
                   sqlite_sequence, clock, pc, port, sock, logged_in, written, last,
                   reads, received, workload, issued, resolved, policy_vars, ws_vars>>

Call_create_logicmain_card_data ==
    /\ encoder_call = NoCall
    /\ encoder_call' = [op |-> "create_logicmain_card_data", args |-> <<>>]
    /\ encoder_out' = create_logicmain_card_data
    /\ UNCHANGED <<tcp_server_running, listener, tcp_clients, users, player_data,
                   sqlite_sequence, clock, pc, port, sock, logged_in, written, last,
                   reads, received, workload, issued, resolved, policy_vars, ws_vars>>

Call_create_logic_action_points_card_data ==
    /\ encoder_call = NoCall
    /\ encoder_call' = [op |-> "create_logic_action_points_card_data", args |-> <<>>]
    /\ encoder_out' = create_logic_action_points_card_data
    /\ UNCHANGED <<tcp_server_running, listener, tcp_clients, users, player_data,
                   sqlite_sequence, clock, pc, port, sock, logged_in, written, last,
                   reads, received, workload, issued, resolved, policy_vars, ws_vars>>

\* Token fields of a login payload: shorter than a length prefix, a prefix
\* that fits with a byte to spare, a prefix that fits exactly, a prefix of
\* zero, a prefix equal to what remains, a prefix above it, and a prefix
\* smaller than what remains but larger than what follows it
TokenInputs ==
    { <<7>>, <<2, 0, 0, 0, 171, 205, 9>>, <<3, 0, 0, 0, 171, 205, 9>>,
      <<0, 0, 0, 0, 1, 2>>, <<6, 0, 0, 0, 1, 2>>, <<0, 0, 1, 0, 1>>,
      <<3, 0, 0, 0, 171>> }

\* The payloads process_tcp_message hands to handle_login_service for them
LoginPayloads ==
    {ParseHeader(LoginRequest(0, 0, 34, SteamA, token)).payload_data : token \in TokenInputs}

\* handle_login_service up to the call of the store: the access token it
\* hands over, for a client on the first port
Call_handle_login_service(data) ==
    /\ encoder_call = NoCall
    /\ encoder_call' = [op |-> "handle_login_service", args |-> <<data>>]
    /\ encoder_out' = LoginIdentity(data, ClientId(50001)).access_token
    /\ UNCHANGED <<tcp_server_running, listener, tcp_clients, users, player_data,
                   sqlite_sequence, clock, pc, port, sock, logged_in, written, last,
                   reads, received, workload, issued, resolved, policy_vars, ws_vars>>

EncoderNext ==
    \/ \E data \in LoginPayloads : Call_handle_login_service(data)
    \/ Call_create_logicmain_card_data
    \/ Call_create_logic_action_points_card_data
    \/ \E coins, xp \in RewardInts, skill_tickets, ap \in {0, 25}, items \in RewardItems :
           Call_create_reward_data(coins, skill_tickets, xp, ap, items)
    \/ \E coins, skill_tickets \in RewardInts, sale \in PriceSales :
           Call_create_price_data(coins, skill_tickets, sale)
    \/ \E rates \in BonusRates, stats \in BonusStats : Call_create_bonuses_data(rates, stats)
    \/ \E value \in VarIntInputs : Call_encode_varint(value)
    \/ \E text_bytes \in CrcInputs : Call_calculate_crc32_hash(text_bytes)

EncoderSpec == Init /\ [][EncoderNext]_vars

----------------------------------------------------------------------------
(* The policy server (start_policy_server): one thread that accepts, sends  *)
(* the policy file and closes, one connection after the other               *)

\* A policy file without its terminator
PolicyFile_NoNul ==
    <<60, 63, 120, 109, 108, 32, 118, 101, 114, 115, 105, 111, 110, 61, 34, 49, 46, 48, 34,
      63, 62, 10, 60, 99, 114, 111, 115, 115, 45, 100, 111, 109, 97, 105, 110, 45, 112, 111,
      108, 105, 99, 121, 62, 10, 32, 32, 32, 32, 60, 97, 108, 108, 111, 119, 45, 97, 99, 99,
      101, 115, 115, 45, 102, 114, 111, 109, 32, 100, 111, 109, 97, 105, 110, 61, 34, 42, 34,
      32, 116, 111, 45, 112, 111, 114, 116, 115, 61, 34, 42, 34, 32, 47, 62, 10, 60, 47, 99,
      114, 111, 115, 115, 45, 100, 111, 109, 97, 105, 110, 45, 112, 111, 108, 105, 99, 121,
      62>>

\* policy_file.encode('utf-8'): the XML declaration, the cross-domain-policy
\* element with its allow-access-from child, and "\0"
PolicyFile ==
    <<60, 63, 120, 109, 108, 32, 118, 101, 114, 115, 105, 111, 110, 61, 34, 49, 46, 48, 34,
      63, 62, 10, 60, 99, 114, 111, 115, 115, 45, 100, 111, 109, 97, 105, 110, 45, 112, 111,
      108, 105, 99, 121, 62, 10, 32, 32, 32, 32, 60, 97, 108, 108, 111, 119, 45, 97, 99, 99,
      101, 115, 115, 45, 102, 114, 111, 109, 32, 100, 111, 109, 97, 105, 110, 61, 34, 42, 34,
      32, 116, 111, 45, 112, 111, 114, 116, 115, 61, 34, 42, 34, 32, 47, 62, 10, 60, 47, 99,
      114, 111, 115, 115, 45, 100, 111, 109, 97, 105, 110, 45, 112, 111, 108, 105, 99, 121,
      62, 0>>

\* What a Flash client sends first: "<policy-file-request/>\0"
PolicyFileRequest ==
    <<60, 112, 111, 108, 105, 99, 121, 45, 102, 105, 108, 101, 45, 114, 101, 113, 117, 101,
      115, 116, 47, 62, 0>>

\* A client connects: the connection waits in the backlog of the listener
PolicyConnect(c) ==
    /\ policy_listener = "listening"
    /\ policy_sock[c] = "none"
    /\ \A d \in PolicyConns : d < c => policy_sock[d] # "none"
    /\ policy_sock' = [policy_sock EXCEPT ![c] = "queued"]
    /\ policy_peer' = [policy_peer EXCEPT ![c] = "connected"]
    /\ UNCHANGED <<tcp_vars, ws_vars, policy_server_running, policy_listener, policy_thread,
                   policy_written, policy_unread>>

\* A connected client sends its request
PolicyPeerSend(c) ==
    /\ policy_peer[c] = "connected"
    /\ policy_sock[c] \in {"queued", "accepted"}
    /\ policy_unread[c] = <<>>
    /\ policy_unread' = [policy_unread EXCEPT ![c] = PolicyFileRequest]
    /\ UNCHANGED <<tcp_vars, ws_vars, policy_server_running, policy_listener, policy_thread,
                   policy_sock, policy_peer, policy_written>>

\* A connected client resets the connection
PolicyPeerReset(c) ==
    /\ policy_peer[c] = "connected"
    /\ policy_sock[c] \in {"queued", "accepted"}
    /\ policy_peer' = [policy_peer EXCEPT ![c] = "reset"]
    /\ UNCHANGED <<tcp_vars, ws_vars, policy_server_running, policy_listener, policy_thread,
                   policy_sock, policy_written, policy_unread>>

\* server_socket.accept() returns the oldest waiting connection
PolicyAccept(c) ==
    /\ policy_thread = "accept"
    /\ policy_sock[c] = "queued"
    /\ \A d \in PolicyConns : d < c => policy_sock[d] # "queued"
    /\ policy_sock' = [policy_sock EXCEPT ![c] = "accepted"]
    /\ policy_thread' = "serve"
    /\ UNCHANGED <<tcp_vars, ws_vars, policy_server_running, policy_listener, policy_peer,
                   policy_written, policy_unread>>

\* client_socket.send(policy_file.encode('utf-8')), client_socket.close(),
\* then the loop test. send raises on a connection the client has reset:
\* the loop is left, the listener closed, and the client socket is closed
\* when policy_server returns and releases it.
PolicyServe(c) ==
    /\ policy_thread = "serve"
    /\ policy_sock[c] = "accepted"
    /\ policy_sock' = [policy_sock EXCEPT ![c] = "closed"]
    /\ IF policy_peer[c] = "connected"
       THEN /\ policy_written' = [policy_written EXCEPT ![c] = @ \o PolicyFile]
            /\ policy_thread' = IF policy_server_running THEN "accept" ELSE "exit"
            /\ policy_listener' = IF policy_server_running THEN policy_listener ELSE "closed"
       ELSE /\ policy_written' = policy_written
            /\ policy_thread' = "exit"
            /\ policy_listener' = "closed"
    /\ UNCHANGED <<tcp_vars, ws_vars, policy_server_running, policy_peer, policy_unread>>

\* RCCServerEmulator.stop_policy_server
stop_policy_server ==
    /\ policy_server_running
    /\ policy_server_running' = FALSE
    /\ UNCHANGED <<tcp_vars, ws_vars, policy_listener, policy_thread, policy_sock, policy_peer,
                   policy_written, policy_unread>>

PolicyNext ==
    \/ \E c \in PolicyConns : PolicyConnect(c)
    \/ \E c \in PolicyConns : PolicyPeerSend(c)
    \/ \E c \in PolicyConns : PolicyPeerReset(c)
    \/ \E c \in PolicyConns : PolicyAccept(c)
    \/ \E c \in PolicyConns : PolicyServe(c)
    \/ stop_policy_server

\* The policy thread runs whenever it can: it is the only one of its kind
PolicySpec ==
    /\ Init /\ [][PolicyNext]_vars
    /\ WF_vars(\E c \in PolicyConns : PolicyAccept(c))
    /\ WF_vars(\E c \in PolicyConns : PolicyServe(c))

----------------------------------------------------------------------------
(* The WebSocket endpoint (handle_websocket, handle_websocket_message,      *)
(* broadcast_message). A JSON message is a record of its type, the client   *)
(* id it names (-1 for none) and its text.                                  *)

WsJson(type, client_id, message) == [type |-> type, client_id |-> client_id, message |-> message]

\* What the clients send: the message types handle_websocket_message tells apart
WsInputs ==
    {WsJson("ping", -1, ""), WsJson("game_action", -1, "jump"), WsJson("chat", -1, "hi"),
     WsJson("hello", -1, "")}

\* handle_websocket up to its first await: client_id = f"client_{len(...)}"
WsOpen(w) ==
    /\ ws_state[w] = "none"
    /\ \A v \in WsConns : v < w => ws_state[v] # "none"
    /\ ws_client_id' = [ws_client_id EXCEPT ![w] = Cardinality(DOMAIN connected_clients)]
    /\ ws_state' = [ws_state EXCEPT ![w] = "accepting"]
    /\ UNCHANGED <<tcp_vars, policy_vars, connected_clients, ws_received, ws_messages>>

\* handle_websocket after websocket.accept(): the entry in connected_clients
\* and the welcome message
WsAccept(w) ==
    /\ ws_state[w] = "accepting"
    /\ connected_clients' = [n \in DOMAIN connected_clients \cup {ws_client_id[w]} |->
                                IF n = ws_client_id[w] THEN w ELSE connected_clients[n]]
    /\ ws_received' = [ws_received EXCEPT
           ![w] = Append(@, WsJson("welcome", ws_client_id[w],
                                   "Connected to RCC Server Emulator"))]
    /\ ws_state' = [ws_state EXCEPT ![w] = "connected"]
    /\ UNCHANGED <<tcp_vars, policy_vars, ws_client_id, ws_messages>>

\* broadcast_message: the clients it sends to, and the entries it deletes
\* because the send failed
BroadcastTargets(exclude_client) ==
    {n \in DOMAIN connected_clients : n # exclude_client}

\* handle_websocket_message: what each client is sent, and connected_clients
\* after it
handle_websocket_message(w, data) ==
    LET client_id == ws_client_id[w]
        reached == {connected_clients[n] : n \in {m \in BroadcastTargets(client_id) :
                                           ws_state[connected_clients[m]] = "connected"}}
        failed  == {n \in BroadcastTargets(client_id) :
                        ws_state[connected_clients[n]] # "connected"}
    IN  CASE data.type = "ping" ->
                 [received |-> [ws_received EXCEPT ![w] = Append(@, WsJson("pong", -1, ""))],
                  connected_clients |-> connected_clients]
          [] data.type = "game_action" ->
                 [received |-> [ws_received EXCEPT
                                   ![w] = Append(@, WsJson("game_response", -1, data.message))],
                  connected_clients |-> connected_clients]
          [] data.type = "chat" ->
                 [received |-> [v \in WsConns |->
                                   IF v \in reached
                                   THEN Append(ws_received[v],
                                               WsJson("chat", client_id, data.message))
                                   ELSE ws_received[v]],
                  connected_clients |-> [n \in DOMAIN connected_clients \ failed |->
                                            connected_clients[n]]]
          [] OTHER ->
                 [received |-> [ws_received EXCEPT
                                   ![w] = Append(@, WsJson("echo", -1, data.type))],
                  connected_clients |-> connected_clients]

\* One iteration of the receive loop of handle_websocket
WsMessage(w, data) ==
    /\ ws_state[w] = "connected"
    /\ ws_messages < MaxWsMessages
    /\ ws_messages' = ws_messages + 1
    /\ ws_received' = handle_websocket_message(w, data).received
    /\ connected_clients' = handle_websocket_message(w, data).connected_clients
    /\ UNCHANGED <<tcp_vars, policy_vars, ws_state, ws_client_id>>

\* The client of a WebSocket goes away
WsPeerClose(w) ==
    /\ ws_state[w] = "connected"
    /\ ws_state' = [ws_state EXCEPT ![w] = "gone"]
    /\ UNCHANGED <<tcp_vars, policy_vars, connected_clients, ws_client_id, ws_received,
                   ws_messages>>

\* receive_json raises on a WebSocket whose client went away: break, then
\* the finally block
WsDisconnect(w) ==
    /\ ws_state[w] = "gone"
    /\ connected_clients' = [n \in DOMAIN connected_clients \ {ws_client_id[w]} |->
                                connected_clients[n]]
    /\ ws_state' = [ws_state EXCEPT ![w] = "closed"]
    /\ UNCHANGED <<tcp_vars, policy_vars, ws_client_id, ws_received, ws_messages>>

WsNext ==
    \/ \E w \in WsConns : WsOpen(w)
    \/ \E w \in WsConns : WsAccept(w)
    \/ \E w \in WsConns, data \in WsInputs : WsMessage(w, data)
    \/ \E w \in WsConns : WsPeerClose(w)
    \/ \E w \in WsConns : WsDisconnect(w)

WsSpec == Init /\ [][WsNext]_vars

----------------------------------------------------------------------------
(* Properties *)

\* A message as the client's frame codec built it: the payload of the frame
\* when the bytes are one frame, the bytes themselves when they are bare
RequestOf(data) == IF IsFrame(data) THEN FramePayload(data) ELSE data

\* C1: every byte sequence the server has written to a game connection
\* (catalogue, login success, login failure, generic reply) is a valid frame:
\* a VarInt length followed by exactly that many bytes in the same write.
C1_EveryWriteIsAFrame ==
    \A c \in Conns : \A i \in 1..Len(written[c]) : IsFrame(written[c][i])

\* C2: any two login replies for requests that carry the same 8-byte account
\* at offset 6, whatever the connection and the token, carry the same PlayerID.
C2_SameAccountSamePlayerID ==
    \A a \in issued, b \in issued : a[1] = b[1] => a[2] = b[2]

UsersFor(source_type, source_id) ==
    {i \in 1..Len(users) : users[i].source_type = source_type /\ users[i].source_id = source_id}

\* C3: under every interleaving of get_or_create_user calls the users table
\* holds at most one row per (source_type, source_id), and exactly one once a
\* login for that pair has returned, with a row or with the constraint's error.
C3_OneRowPerIdentity ==
    /\ \A i \in 1..Len(users), j \in 1..Len(users) :
           (users[i].source_type = users[j].source_type /\ users[i].source_id = users[j].source_id)
               => i = j
    /\ \A pr \in resolved : Cardinality(UsersFor(pr[1], pr[2])) = 1
    /\ \A c \in Conns : last[c].event \in {"login_ok", "login_failed"}
           => Cardinality(UsersFor("Steam", last[c].source_id)) = 1

\* Two connections raced to create the same identity: both SELECTs missed,
\* one INSERT committed, the other hit the constraint
C3_RaceHappened ==
    \E c \in Conns, d \in Conns :
        /\ c # d
        /\ last[c].event = "login_ok" /\ last[c].result = <<>>
        /\ last[d].event = "login_failed" /\ last[d].result = <<>>
        /\ last[c].source_id = last[d].source_id

IsCatalogue(w) == IsFrame(w) /\ Len(w) >= 2 /\ FramePayload(w)[1] = 101

C5_OverlongVarIntClosesSilently ==
    \A c \in Conns :
        (last[c].event = "message" /\ last[c].data = <<255, 255, 255, 255, 255>>)
            => (last[c].response = <<>> /\ pc[c] = "closed")

\* C6: a message dispatched to ServiceGame (108), with FunctionID 0 or any
\* other, makes the server write nothing, and the connection stays open,
\* waiting for the next message.
C6_GameMessagesGetNoReply ==
    [][\A c \in Conns, data \in Inputs :
          (RecvMessage(c, data) /\ process_tcp_message(data)[2] = 108)
              => (written'[c] = written[c] /\ pc'[c] = "loop" /\ sock'[c] = "open")]_vars

\* A message with a FunctionID other than 0 went to ServiceGame
C6_GameMessageHandled ==
    \E c \in Conns :
        /\ last[c].event = "message" /\ last[c].service_id = 108
        /\ last[c].data = <<177, 2, 108, 7>>
        /\ pc[c] = "loop" /\ Len(written[c]) = 1

\* C7: a request with header ServiceID in {102..107, 109}, FunctionID, RPCID
\* (u16 little-endian) is answered with exactly three bytes, the RPCID of the
\* request (little-endian) and status 0.
C7_GenericReplyEchoesRpcId ==
    \A c \in Conns :
        LET req == RequestOf(last[c].data)
        IN  (last[c].event = "message" /\ Len(req) >= 4 /\ req[1] \in GenericServiceIds)
                => last[c].response = <<req[3], req[4], 0>>

\* C8: the reply to a login request with header ServiceID 100, FunctionID 0,
\* RPCID carries the RPCID of the request in bytes 2..3 of its payload.
C8_LoginReplyEchoesRpcId ==
    \A c \in Conns :
        LET req == RequestOf(last[c].data)
            rep == RequestOf(last[c].response)
        IN  (/\ last[c].event \in {"login_ok", "login_failed"}
             /\ Len(req) >= 4 /\ req[1] = 100 /\ req[2] = 0)
                => (Len(rep) >= 4 /\ rep[3] = req[3] /\ rep[4] = req[4])

\* C9: the payload of a success login reply is exactly 11 bytes: 100, 0, the
\* RPCID handed to the handler (u16 LE), status 0, PlayerID (u32 LE),
\* UserState, AccessLevel, the last three as the users table holds them for
\* the resolved identity; UserState 1 and AccessLevel 0 for a new identity.
C9_LoginReplyLayout ==
    \A c \in Conns :
        last[c].event = "login_ok" =>
            LET l == last[c]
                rows == SelectSeq(users, LAMBDA r : r.source_type = "Steam"
                                                    /\ r.source_id = l.source_id)
                p == FramePayload(l.response)
            IN  /\ IsFrame(l.response)
                /\ Len(p) = 11
                /\ Len(rows) = 1
                /\ p[1] = 100 /\ p[2] = 0
                /\ p[3] + 256 * p[4] = l.rpc_id
                /\ p[5] = 0
                /\ p[6] + 256 * p[7] + 65536 * p[8] + 16777216 * p[9] = rows[1].player_id
                /\ p[10] = rows[1].user_state
                /\ p[11] = rows[1].access_level
                /\ l.result = <<>> => (p[10] = 1 /\ p[11] = 0)

\* One connection was answered for a new identity, another for an existing one
C9_NewAndExistingAnswered ==
    \E c \in Conns, d \in Conns :
        /\ last[c].event = "login_ok" /\ last[c].result = <<>>
        /\ last[d].event = "login_ok" /\ last[d].result # <<>>
        /\ last[d].rpc_id = 256

\* C10: a login payload of exactly 14 bytes parses: the token is empty and
\* the source id is the decimal form of the account at offsets 6..13.
C10_FourteenBytePayloadParses ==
    \A c \in Conns :
        (last[c].event \in {"login_select", "login_ok", "login_failed"}
         /\ Len(last[c].payload) = 14)
            => (/\ last[c].access_token = ""
                /\ last[c].source_id = StrQ(PySlice(last[c].payload, 6, 14)))

HasPrefix(s, p) == Len(s) >= Len(p) /\ SubSeq(s, 1, Len(p)) = p

LoginEvents == {"login_select", "login_ok", "login_failed"}

\* The PlayerID field of a framed login reply
ReplyPlayerId(response) ==
    LET p == FramePayload(response)
    IN  p[6] + 256 * p[7] + 65536 * p[8] + 16777216 * p[9]

\* C11 (as stated): a login payload too short to parse is resolved under the
\* source id "steam_fallback_{raw}".
C11_ShortPayloadUsesSteamFallback ==
    \A c \in Conns :
        (last[c].event \in LoginEvents /\ Len(last[c].payload) < 14)
            => HasPrefix(last[c].source_id, "steam_fallback_")

\* C11 (amended): a login payload shorter than 14 bytes gets no failure
\* reply for it: the handler resolves the source id "steam_error_{client
\* port}" through the store and answers with a success reply for that
\* identity. "steam_fallback_{raw}" names the identity of a payload that
\* parses with an account below the Steam range. A failure reply only comes
\* from the store.
C11_ShortPayloadUsesClientPort ==
    \A c \in Conns :
        LET l == last[c]
            short == Len(l.payload) < 14
            low == Len(l.payload) > 14 /\ PySlice(l.payload, 6, 14) = SteamLow
        IN  l.event \in LoginEvents =>
                /\ short => \/ port[c] = 50001 /\ l.source_id = "steam_error_50001"
                            \/ port[c] = 50002 /\ l.source_id = "steam_error_50002"
                /\ low => l.source_id = "steam_fallback_1234"
                /\ (l.event = "login_ok" /\ (short \/ low)) =>
                       /\ FramePayload(l.response)[5] = 0
                       /\ \E i \in UsersFor("Steam", l.source_id) :
                              users[i].player_id = ReplyPlayerId(l.response)
                /\ l.event = "login_failed" =>
                       (l.result = <<>> /\ UsersFor("Steam", l.source_id) # {})

\* A payload too short to parse and a payload with an account below the
\* Steam range were both answered with a success reply
C11_BothFallbacksAnswered ==
    \E c \in Conns, d \in Conns :
        /\ last[c].event = "login_ok" /\ Len(last[c].payload) < 14
        /\ last[d].event = "login_ok" /\ Len(last[d].payload) > 14
        /\ PySlice(last[d].payload, 6, 14) = SteamLow

\* C12: when the store raises during a login, the server writes the failure
\* reply (100, 0, RPCID, 255, u32-LE length, UTF-8 error text) in a VarInt
\* frame, the connection stays open in its loop and its logged_in flag keeps
\* its value.
C12_StoreFailureReply ==
    [][\A c \in Conns :
          (pc[c] = "login" /\ last'[c].event = "login_failed")
              => LET l == last'[c]
                     p == FramePayload(l.response)
                 IN  /\ written'[c] = Append(written[c], l.response)
                     /\ IsFrame(l.response)
                     /\ Len(p) >= 9
                     /\ p[1] = 100 /\ p[2] = 0
                     /\ p[3] + 256 * p[4] = l.rpc_id
                     /\ p[5] = 255
                     /\ p[6] + 256 * p[7] + 65536 * p[8] + 16777216 * p[9] = Len(p) - 9
                     /\ PyFrom(p, 9) = LoginErrorUnique
                     /\ pc'[c] = "loop" /\ sock'[c] = "open"
                     /\ logged_in'[c] = logged_in[c]]_vars

\* A connection got a failure reply and then, on a later login, a success reply
C12_RetrySucceeded ==
    \E c \in Conns :
        /\ Len(written[c]) = 3
        /\ IsFrame(written[c][2]) /\ Len(written[c][2]) >= 10
        /\ FramePayload(written[c][2])[5] = 255
        /\ last[c].event = "login_ok" /\ last[c].response = written[c][3]
        /\ logged_in[c]

\* Other values of the protocol-version byte
OtherProtocols == {0, 33, 34, 35, 255}

\* The reply handle_login_service would send for a payload on connection c,
\* the SELECT of get_or_create_user having returned result
ReplyFor(c, rpc_id, data, result) ==
    LET id == LoginIdentity(data, ClientId(port[c]))
    IN  LoginResponse(rpc_id, get_or_create_user(users, player_data, sqlite_sequence, clock,
                                                 result, id.source_type, id.source_id,
                                                 id.access_token))

\* C13: the outcome of a login does not depend on the protocol-version byte:
\* the same request with any other byte at payload offset 1 resolves the same
\* identity and gets a byte-identical reply.
C13_ProtocolByteIrrelevant ==
    \A c \in Conns :
        pc[c] = "login" =>
            \A v \in OtherProtocols :
                LET l == last[c]
                    other == [l.payload EXCEPT ![2] = v]
                IN  /\ LoginIdentity(other, ClientId(port[c])).source_id = l.source_id
                    /\ ReplyFor(c, l.rpc_id, other, l.result)
                           = ReplyFor(c, l.rpc_id, l.payload, l.result)

\* A login with protocol version 35 found the identity a login with
\* protocol version 34 had created
C13_OtherProtocolResolved ==
    \E c \in Conns :
        /\ pc[c] = "login" /\ last[c].payload[2] = 35 /\ last[c].result # <<>>
        /\ last[c].source_id = "76561198139908495"

\* C14: an inbound message dispatched to the Cards service (101) is ignored:
\* the server writes nothing in response.
C14_CardsMessagesIgnored ==
    \A c \in Conns :
        (last[c].event = "message" /\ last[c].service_id = 101) => last[c].response = <<>>

\* C15: for a message of at least 3 bytes the dispatcher uses byte [0] as the
\* service id when it is a known one (also when byte [2] is known), and byte
\* [2] otherwise.
C15_ByteZeroHasPriority ==
    \A c \in Conns :
        (last[c].event \in LoginEvents \cup {"message"} /\ Len(last[c].data) >= 3)
            => last[c].service_id = IF last[c].data[1] \in 100..109
                                    THEN last[c].data[1] ELSE last[c].data[3]

\* C16: a message whose selected service id is not one of 100..109 is
\* answered with the generic success reply, the RPC id read after the cursor
\* (u16 little-endian, 0 when the message ends before it) and status 0, and
\* the connection stays open in its loop.
C16_UnknownServiceGetsGenericReply ==
    [][\A c \in Conns, data \in Inputs :
          (/\ RecvMessage(c, data)
           /\ Len(data) >= 3
           /\ data[1] \notin 100..109 /\ data[3] \notin 100..109)
              => /\ written'[c] = Append(written[c],
                                         IF Len(data) >= 5 THEN <<data[4], data[5], 0>>
                                         ELSE <<0, 0, 0>>)
                 /\ pc'[c] = "loop" /\ sock'[c] = "open"]_vars

\* A message for service 255 was answered with the generic reply
C16_UnknownServiceAnswered ==
    \E c \in Conns :
        /\ last[c].event = "message" /\ last[c].service_id = 255
        /\ last[c].response = <<255, 255, 0>>
        /\ written[c][Len(written[c])] = <<255, 255, 0>>
        /\ pc[c] = "loop"

\* A written byte string is a login reply with Status = 0
IsLoginSuccessReply(w) ==
    /\ IsFrame(w)
    /\ Len(FramePayload(w)) >= 5
    /\ FramePayload(w)[1] = 100
    /\ FramePayload(w)[2] = 0
    /\ FramePayload(w)[5] = 0

\* C17: the logged-in flag of a connection is false when the connection is
\* accepted and is true exactly when a login reply with Status = 0 has been
\* written on that connection: no failure reply and no reply of another
\* service sets it, and once true it stays true.
C17_LoggedInIffSuccessReplySent ==
    \A c \in Conns :
        /\ pc[c] \in {"none", "start"} => ~logged_in[c]
        /\ logged_in[c] = (\E i \in 1..Len(written[c]) : IsLoginSuccessReply(written[c][i]))

\* One connection got a failure login reply and is not logged in, another
\* one logged in and then got the reply of another service
C17_FailureLeavesFlagSuccessSetsIt ==
    \E c, d \in Conns :
        /\ last[c].event = "login_failed" /\ ~logged_in[c]
        /\ written[c][Len(written[c])] = last[c].response
        /\ logged_in[d] /\ IsLoginSuccessReply(written[d][2])

\* C18: a read timeout is not fatal: the connection stays open in its loop,
\* nothing is written, and the logged-in flags and the tracked clients are
\* unchanged.
C18_TimeoutKeepsConnection ==
    [][\A c \in Conns :
          (last'[c].event = "timeout" /\ last[c].event # "timeout")
              => /\ pc'[c] = "loop" /\ sock'[c] = "open"
                 /\ written' = written
                 /\ logged_in' = logged_in
                 /\ tcp_clients' = tcp_clients]_vars

\* A logged-in connection and one that is not both timed out and wait on
C18_TimedOutBothWays ==
    \E c, d \in Conns :
        /\ last[c].event = "timeout" /\ logged_in[c] /\ pc[c] = "loop"
        /\ last[d].event = "timeout" /\ ~logged_in[d] /\ pc[d] = "loop"

\* C19: when a read returns empty or fails with an error other than a
\* timeout, the connection is closed: its socket is closed, its client id is
\* no longer tracked, and from then on nothing is written on it.
C19_ReadFailureCloses ==
    [][\A c \in Conns :
          /\ (last'[c].event \in {"peer_closed", "recv_error"} /\ last'[c] # last[c])
                => /\ pc'[c] = "closed" /\ sock'[c] = "closed"
                   /\ port[c] \notin DOMAIN tcp_clients'
                   /\ written'[c] = written[c]
          /\ pc[c] = "closed"
                => /\ pc'[c] = "closed" /\ sock'[c] = "closed"
                   /\ written'[c] = written[c]]_vars

\* One connection ended on an empty read and one on a read error, and the
\* server, still running, tracks neither
C19_BothKindsClosed ==
    \E c, d \in Conns :
        /\ last[c].event = "peer_closed" /\ pc[c] = "closed"
        /\ last[d].event = "recv_error" /\ pc[d] = "closed"
        /\ tcp_server_running /\ DOMAIN tcp_clients = {}

\* C20: the replies of a connection are written in the order its requests
\* were received: a connection takes no request while one is being answered,
\* and every reply is appended after all earlier writes and is the reply to
\* the request received last.
C20_RepliesInRequestOrder ==
    [][\A c \in Conns :
          /\ pc[c] = "login" => last'[c].data = last[c].data
          /\ written'[c] # written[c]
                => /\ Len(written'[c]) = Len(written[c]) + 1
                   /\ SubSeq(written'[c], 1, Len(written[c])) = written[c]
                   /\ pc[c] # "start"
                         => /\ last'[c].event \in {"message", "login_ok", "login_failed"}
                            /\ written'[c][Len(written'[c])] = last'[c].response]_vars

\* A connection got a generic reply and then a different login reply
C20_TwoRepliesInOrder ==
    \E c \in Conns :
        /\ Len(written[c]) = 3
        /\ Len(written[c][2]) = 3
        /\ IsLoginSuccessReply(written[c][3])
        /\ last[c].event = "login_ok" /\ last[c].response = written[c][3]

\* The size handed to recv, the largest frame the server is prepared to read
FrameCap == 2000000

\* The bytes of one read are not a complete frame within the cap: the length
\* prefix is not a VarInt, or it declares more than the cap, or more than
\* the bytes that follow
MalformedFrame(data) ==
    LET r == ReadVarInt(data, 1, 1, 0)
    IN  \/ r[1] < 0
        \/ r[1] > FrameCap
        \/ Len(data) < r[2] + r[1]

\* C21: a frame that is malformed (bad length prefix, truncated payload) or
\* larger than the cap closes the connection, and nothing is written in
\* response.
C21_MalformedFrameClosesSilently ==
    \A c \in Conns :
        (last[c].event \in LoginEvents \cup {"message"} /\ MalformedFrame(last[c].data))
            => last[c].response = <<>> /\ pc[c] = "closed"

\* C22: once stop_tcp_server has run the listener is closed, so that no new
\* connection is accepted or served, and the client sockets are closed, the
\* listener before them.
C22_ShutdownClosesListenerAndClients ==
    ~tcp_server_running =>
        /\ listener = "closed"
        /\ \A c \in Conns : sock[c] # "open"

\* C23: player ids are monotonic: the id a miss assigns is greater than
\* every id assigned before it, and no id belongs to two different
\* (source_type, source_id) pairs.
C23_PlayerIdsMonotonic ==
    [][Len(users') > Len(users)
          => /\ Len(users') = Len(users) + 1
             /\ SubSeq(users', 1, Len(users)) = users
             /\ \A i \in 1..Len(users) :
                    users'[Len(users')].player_id > users[i].player_id
             /\ \A p \in issued : users'[Len(users')].player_id > p[2]
             /\ \A i, j \in 1..Len(users') :
                    users'[i].player_id = users'[j].player_id
                        => /\ users'[i].source_type = users'[j].source_type
                           /\ users'[i].source_id = users'[j].source_id]_vars

\* Two misses for two accounts got the ids 1 and 2
C23_TwoIdsAssigned ==
    /\ Len(users) = 2
    /\ users[1].player_id = 1 /\ users[2].player_id = 2
    /\ users[1].source_id # users[2].source_id
    /\ \A c \in Conns : pc[c] # "login"

\* C24: a hit of get_or_create_user changes nothing but last_login and
\* access_token_hash of the row it hit: the rows, their player_id,
\* user_state, access_level and created_at, the other rows and every
\* player_data name stay, and the player id returned is the existing one.
C24_HitUpdatesLoginFieldsOnly ==
    [][\A c \in Conns :
          (pc[c] = "login" /\ last[c].result # <<>> /\ pc'[c] # "login")
              => LET hit == last[c].result[1].player_id
                 IN  /\ Len(users') = Len(users)
                     /\ player_data' = player_data
                     /\ \A i \in 1..Len(users) :
                            IF users[i].player_id = hit
                            THEN users'[i] = [users[i] EXCEPT
                                                 !.last_login = users'[i].last_login,
                                                 !.access_token_hash =
                                                     users'[i].access_token_hash]
                            ELSE users'[i] = users[i]
                     /\ \E i \in 1..Len(users) :
                            /\ users[i].player_id = hit
                            /\ users[i].source_id = last[c].source_id
                     /\ sock[c] = "open"
                            => ReplyPlayerId(last'[c].response) = hit]_vars

\* A second login of an account hit its row, next to another account's row
C24_HitAnswered ==
    \E c \in Conns :
        /\ last[c].event = "login_ok" /\ last[c].result # <<>>
        /\ Len(users) = 2
        /\ \E i \in 1..2 : /\ users[i].source_id = last[c].source_id
                           /\ users[i].last_login > users[i].created_at

\* C25: the VarInt of a value below 2^32 (here: every value the bounds give,
\* up to 2^31 - 1) has at most 5 bytes, the high bit set on every byte but
\* the last, and the reference reader returns the value from it.
C25_VarIntRoundTrip ==
    encoder_call.op = "encode_varint" =>
        LET n == encoder_call.args[1]
            b == encoder_out
        IN  /\ Len(b) >= 1 /\ Len(b) <= 5
            /\ \A i \in 1..(Len(b) - 1) : b[i] >= 128
            /\ b[Len(b)] < 128
            /\ ReadVarInt(b, 1, 1, 0) = <<n, Len(b)>>

\* The largest 31-bit value was encoded in 5 bytes
C25_FiveByteVarIntEncoded ==
    /\ encoder_call = [op |-> "encode_varint", args |-> <<2147483647>>]
    /\ encoder_out = <<255, 255, 255, 255, 7>>

\* C28: calculate_crc32_hash("logic_main") is 3317978623, the IEEE CRC32 of
\* the UTF-8 bytes as an unsigned 32-bit value (compared in decimal digits,
\* the value being above 2^31).
C28_LogicMainHash ==
    (encoder_call.op = "calculate_crc32_hash" /\ encoder_call.args[1] = ID_logic_main)
        => /\ Len(encoder_out) = 4
           /\ BigStr(Reverse(encoder_out)) = "3317978623"

\* The hash of "logic_main" was computed
C28_LogicMainHashed ==
    /\ encoder_call = [op |-> "calculate_crc32_hash", args |-> <<ID_logic_main>>]
    /\ encoder_out = <<255, 85, 196, 197>>

\* The reference decoder of the inline records: an i32, an f32 (one of the
\* float literals of the model), and the three records read field by field
\* in the documented order; end is the number of bytes read
unpack_i(b) ==
    IF b[4] >= 128
    THEN (b[1] + 256 * b[2] + 65536 * b[3] + 16777216 * (b[4] - 128)) - 2147483647 - 1
    ELSE b[1] + 256 * b[2] + 65536 * b[3] + 16777216 * b[4]

FloatLiterals ==
    {"0.0", "0.9", "1.0", "1.1", "1.2", "1.5", "1.8", "2.0", "10.0", "80.0", "100.0",
     "120.0", "300.0"}

unpack_f(b) ==
    IF \E x \in FloatLiterals : pack_f(x) = b
    THEN CHOOSE x \in FloatLiterals : pack_f(x) = b
    ELSE "?"

DecodeReward(b) ==
    LET money == b[1] >= 128
        at    == IF money THEN 9 ELSE 1
        count == ReadVarInt(PyFrom(b, at + 8), 1, 1, 0)
        first == at + 8 + count[2]
    IN  [money  |-> money,
         coins  |-> IF money THEN unpack_i(PySlice(b, 1, 5)) ELSE 0,
         skill_tickets |-> IF money THEN unpack_i(PySlice(b, 5, 9)) ELSE 0,
         xp     |-> unpack_i(PySlice(b, at, at + 4)),
         ap     |-> unpack_i(PySlice(b, at + 4, at + 8)),
         items  |-> [i \in 1..count[1] |-> PySlice(b, first + 4 * (i - 1), first + 4 * i)],
         end    |-> first + 4 * count[1]]

DecodePrice(b) ==
    LET sale == b[1] >= 128
    IN  [coins |-> unpack_i(PySlice(b, 1, 5)),
         skill_tickets |-> unpack_i(PySlice(b, 5, 9)),
         sale  |-> IF sale THEN unpack_f(PySlice(b, 9, 13)) ELSE "None",
         end   |-> IF sale THEN 13 ELSE 9]

DecodeBonuses(b) ==
    [rates |-> [i \in 1..5 |-> unpack_f(PySlice(b, 4 * (i - 1), 4 * i))],
     stats |-> [i \in 1..7 |-> unpack_i(PySlice(b, 20 + 4 * (i - 1), 20 + 4 * i))],
     end   |-> 48]

\* C27: what create_reward_data, create_price_data and create_bonuses_data
\* return has no length prefix and is inverted by the reference decoder,
\* which reads the fields in the documented order (string items arriving as
\* their CRC32) and ends exactly at the last byte.
C27_InlineRecordsRoundTrip ==
    LET a == encoder_call.args
        b == encoder_out
    IN  /\ encoder_call.op = "create_reward_data" =>
               LET d == DecodeReward(b)
               IN  /\ b[1] = 128
                   /\ d.money /\ d.coins = a[1] /\ d.skill_tickets = a[2]
                   /\ d.xp = a[3] /\ d.ap = a[4]
                   /\ Len(d.items) = Len(a[5])
                   /\ \A i \in 1..Len(a[5]) :
                          d.items[i] = IF a[5][i][1] = "str"
                                       THEN calculate_crc32_hash(a[5][i][2])
                                       ELSE pack_I(a[5][i][2])
                   /\ d.end = Len(b)
        /\ encoder_call.op = "create_price_data" =>
               LET d == DecodePrice(b)
               IN  /\ (b[1] >= 128) = (a[3] # "None")
                   /\ b[1] \in {0, 128}
                   /\ d.coins = a[1] /\ d.skill_tickets = a[2] /\ d.sale = a[3]
                   /\ d.end = Len(b)
        /\ encoder_call.op = "create_bonuses_data" =>
               LET d == DecodeBonuses(b)
               IN  /\ d.rates = a[1] /\ d.stats = a[2]
                   /\ d.end = Len(b)

\* A reward with negative coins, an item given as an ID and two given
\* otherwise was encoded in 1 + 16 + 1 + 12 bytes
C27_RewardWithItemsEncoded ==
    /\ encoder_call.op = "create_reward_data"
    /\ encoder_call.args[1] = -1
    /\ Len(encoder_call.args[5]) = 3
    /\ Len(encoder_out) = 30
    /\ PySlice(encoder_out, 22, 26) = <<94, 241, 41, 58>>

\* The reference reader of cards. Positions count the bytes already read.
\* A VarInt at position p: <<value, position after it>>
ReadSize(b, p) ==
    LET r == ReadVarInt(PyFrom(b, p), 1, 1, 0)
    IN  <<r[1], p + r[2]>>

\* A string at position p: its bytes and the position after it
ReadString(b, p) ==
    LET n == ReadSize(b, p)
    IN  [bytes |-> PySlice(b, n[2], n[2] + n[1]), end |-> n[2] + n[1]]

\* The position after n strings that start at position p
RECURSIVE SkipStrings(_, _, _)
SkipStrings(b, p, n) ==
    IF n <= 0 THEN p ELSE SkipStrings(b, ReadString(b, p).end, n - 1)

SkipStringList(b, p) == SkipStrings(b, ReadSize(b, p)[2], ReadSize(b, p)[1])

\* A card at position p, read by its category: tag, ID, the position of the
\* sentinel (-1 for a category without one) and the position after the card
ReadCard(b, p) ==
    LET tag == IF p < Len(b) THEN b[p + 1] ELSE -1
        id  == ReadString(b, p + 1)
    IN  CASE tag = 21 ->
                 LET r1     == id.end + 16
                     r2     == r1 + DecodeReward(PyFrom(b, r1)).end
                     levels == ReadSize(b, r2 + DecodeReward(PyFrom(b, r2)).end)
                     price  == levels[2] + 4 * levels[1] + 4
                     flags  == price + DecodePrice(PyFrom(b, price)).end
                     mark   == SkipStringList(b, flags)
                 IN  [tag |-> tag, id |-> id.bytes, sentinel |-> mark, end |-> mark + 2 + 48]
          [] tag = 22 ->
                 [tag |-> tag, id |-> id.bytes, sentinel |-> id.end + 32,
                  end |-> id.end + 32 + 2 + 48]
          [] tag = 30 ->
                 LET stars == ReadSize(b, id.end + 12)
                 IN  [tag |-> tag, id |-> id.bytes, sentinel |-> -1,
                      end |-> stars[2] + 4 * stars[1]]
          [] tag = 17 ->
                 LET hair == ReadSize(b, SkipStringList(b, SkipStringList(b,
                                            SkipStringList(b, id.end))))
                 IN  [tag |-> tag, id |-> id.bytes, sentinel |-> -1,
                      end |-> hair[2] + 32 * hair[1]]
          [] OTHER -> [tag |-> tag, id |-> <<>>, sentinel |-> -1, end |-> Len(b) + 1]

\* The four cards of a catalogue payload, each read where the one before ended
CatalogueCards(b) ==
    LET c1 == ReadCard(b, 3)
        c2 == ReadCard(b, c1.end)
        c3 == ReadCard(b, c2.end)
        c4 == ReadCard(b, c3.end)
    IN  <<c1, c2, c3, c4>>

\* C26: the payload pushed on accept is byte 101, byte 0, the VarInt count
\* 4, then exactly 4 card encodings and nothing else: LogicMain (0x15,
\* "logic_main"), LogicActionPoints (0x16, "logic_action_points"), LogicChat
\* (0x1E, "logic_chat"), LogicSkins (0x11, "skins"), each starting with its
\* tag followed by the VarInt-prefixed ID.
C26_CatalogueHoldsFourCards ==
    [][\A c \in Conns :
          (written[c] = <<>> /\ written'[c] # <<>>)
              => LET b == FramePayload(written'[c][1])
                     cards == CatalogueCards(b)
                 IN  /\ IsFrame(written'[c][1])
                     /\ b[1] = 101 /\ b[2] = 0
                     /\ ReadSize(b, 2) = <<4, 3>>
                     /\ <<cards[1].tag, cards[2].tag, cards[3].tag, cards[4].tag>>
                            = <<21, 22, 30, 17>>
                     /\ <<cards[1].id, cards[2].id, cards[3].id, cards[4].id>>
                            = <<ID_logic_main, ID_logic_action_points, ID_logic_chat,
                                ID_skins>>
                     /\ cards[4].end = Len(b)]_vars

\* A catalogue was pushed while the store held two players
C26_CataloguePushedWithPlayers ==
    \E c \in Conns :
        /\ Len(written[c]) >= 1
        /\ FramePayload(written[c][1])[1] = 101
        /\ Len(users) = 2
        /\ LET b == FramePayload(written[c][1])
           IN  ReadSize(b, CatalogueCards(b)[3].end - 9) = <<2, CatalogueCards(b)[3].end - 8>>

\* C29: the LogicMain card has the two bytes FF F0 right after its flags
\* list and right before its Bonuses record, and the LogicActionPoints card
\* has them right after its f32 buff threshold and right before its Bonuses
\* record, with which either card ends.
C29_SentinelBeforeBonuses ==
    encoder_call.op \in {"create_logicmain_card_data", "create_logic_action_points_card_data"}
        => LET b == encoder_out
               main == encoder_call.op = "create_logicmain_card_data"
               card == ReadCard(b, 0)
               mark == card.sentinel
               bonuses == DecodeBonuses(PyFrom(b, mark + 2))
           IN  /\ card.tag = IF main THEN 21 ELSE 22
               /\ PySlice(b, mark, mark + 2) = <<255, 240>>
               /\ \A i \in 1..5 : bonuses.rates[i] \in FloatLiterals
               /\ bonuses.stats[1] = IF main THEN 10000 ELSE 12000
               /\ mark + 2 + bonuses.end = Len(b)
               /\ main => PySlice(b, mark - 6, mark) = <<1, 4>> \o Flag_snow
               /\ ~main => PySlice(b, mark - 4, mark) = pack_f("80.0")

\* The LogicMain card was encoded, FF F0 being its bytes 50 and 49 from the end
C29_LogicMainSentinelEncoded ==
    /\ encoder_call.op = "create_logicmain_card_data"
    /\ ReadCard(encoder_out, 0).sentinel + 50 = Len(encoder_out)
    /\ encoder_out[Len(encoder_out) - 49] = 255
    /\ encoder_out[Len(encoder_out) - 48] = 240

\* C30: every connection accepted on the policy port is sent the
\* cross-domain XML policy followed by a NUL byte and is then closed, and
\* nothing is read from it: what its client sent stays unread. (Nothing can
\* be sent to a client that has reset the connection; it is closed as well.)
C30_PolicyServedThenClosed ==
    /\ \A c \in PolicyConns :
           (policy_sock[c] = "accepted") ~> (policy_sock[c] = "closed")
    /\ [](\A c \in PolicyConns :
             /\ policy_sock[c] # "closed" => policy_written[c] = <<>>
             /\ policy_sock[c] = "closed" =>
                    LET w == policy_written[c]
                    IN  \/ policy_peer[c] = "reset" /\ w = <<>>
                        \/ /\ Len(w) = 117
                           /\ SubSeq(w, 1, 5) = <<60, 63, 120, 109, 108>>
                           /\ SubSeq(w, 44, 48) = <<10, 32, 32, 32, 32>>
                           /\ SubSeq(w, 95, 116) =
                                  <<60, 47, 99, 114, 111, 115, 115, 45, 100, 111, 109, 97,
                                    105, 110, 45, 112, 111, 108, 105, 99, 121, 62>>
                           /\ w[117] = 0
                           /\ \A i \in 1..116 : w[i] # 0)
    /\ [][\A c \in PolicyConns :
             policy_unread'[c] = policy_unread[c]
                 \/ (policy_unread[c] = <<>> /\ policy_sock'[c] # "closed")]_vars

\* A client that had sent its request was served and closed, the request
\* still unread, and so was a second client after it
C30_TwoClientsServed ==
    /\ policy_sock[1] = "closed" /\ policy_written[1] = PolicyFile
    /\ policy_unread[1] = PolicyFileRequest
    /\ policy_sock[2] = "closed" /\ policy_written[2] = PolicyFile
    /\ policy_peer[2] = "connected"

\* C31: a chat message a connected client sends is delivered to every other
\* WebSocket client connected at that time, and not to its sender.
C31_ChatReachesAllOthers ==
    [][\A w \in WsConns :
          WsMessage(w, WsJson("chat", -1, "hi"))
              => /\ ws_received'[w] = ws_received[w]
                 /\ \A v \in WsConns \ {w} :
                        ws_state[v] = "connected"
                            => /\ Len(ws_received'[v]) = Len(ws_received[v]) + 1
                               /\ ws_received'[v][Len(ws_received'[v])].type = "chat"
                               /\ ws_received'[v][Len(ws_received'[v])].message = "hi"]_vars

\* C39: every connected WebSocket client has its own entry in
\* connected_clients: its client id maps to it, and no two connected clients
\* have the same client id.
C39_EveryClientHasItsOwnEntry ==
    \A w \in WsConns :
        ws_state[w] \in {"connected", "gone"}
            => /\ ws_client_id[w] \in DOMAIN connected_clients
               /\ connected_clients[ws_client_id[w]] = w
               /\ \A v \in WsConns \ {w} :
                      ws_state[v] \in {"connected", "gone"}
                          => ws_client_id[v] # ws_client_id[w]

\* The bytes of one read are two complete frames, one after the other
TwoFrames(data) ==
    \E k \in 1..(Len(data) - 1) :
        IsFrame(SubSeq(data, 1, k)) /\ IsFrame(SubSeq(data, k + 1, Len(data)))

\* C32: each client frame is dispatched exactly once however the byte stream
\* is split into reads: a read that delivers two complete frames has both
\* dispatched and answered, so it adds two replies to the connection.
C32_EveryFrameOfAReadAnswered ==
    [][\A c \in Conns :
          (pc[c] = "loop" /\ last'[c] # last[c] /\ last'[c].event = "message"
              /\ TwoFrames(last'[c].data))
                => Len(written'[c]) = Len(written[c]) + 2]_vars

\* C33: two connections that log in for the first time with the same account
\* at the same time both get a success reply (Status = 0) with the same
\* PlayerID, under every interleaving of their store transactions: a login
\* whose SELECT found no row is never answered with a failure reply.
C33_ConcurrentFirstLoginsBothSucceed ==
    \A c \in Conns, d \in Conns :
        (/\ last[c].event \in {"login_ok", "login_failed"} /\ last[c].result = <<>>
         /\ last[d].event \in {"login_ok", "login_failed"} /\ last[d].result = <<>>
         /\ last[c].source_id = last[d].source_id)
            => /\ IsLoginSuccessReply(last[c].response)
               /\ IsLoginSuccessReply(last[d].response)
               /\ ReplyPlayerId(last[c].response) = ReplyPlayerId(last[d].response)

\* C34: when the four bytes at offset 14 of a login payload encode a
\* little-endian length L with 0 < L < remaining length and L < 10000, the
\* access token handed to the store is exactly the L bytes after those four
\* bytes (as a hex string); otherwise it is every byte from offset 14 on.
C34_TokenIsPrefixedOrRest ==
    encoder_call.op = "handle_login_service" =>
        LET data == encoder_call.args[1]
            rest == PyFrom(data, 14)
            remaining == Len(rest)
            L == IF remaining >= 4
                 THEN rest[1] + 256 * rest[2] + 65536 * rest[3] + 16777216 * rest[4]
                 ELSE 0
        IN  IF remaining >= 4 /\ 0 < L /\ L < remaining /\ L < 10000
            THEN /\ remaining - 4 >= L
                 /\ encoder_out = Hex(SubSeq(rest, 5, 4 + L))
            ELSE encoder_out = Hex(rest)

\* C35: the source id of a well-formed login request is the decimal
\* representation of the u64 little-endian account at offset 6, whatever the
\* value of the account, so requests with different accounts are resolved
\* to different identities and answered with different PlayerIDs.
C35_SourceIdIsDecimalAccount ==
    /\ \A c \in Conns :
           (last[c].event \in LoginEvents /\ Len(last[c].payload) >= 14)
               => last[c].source_id = StrQ(PySlice(last[c].payload, 6, 14))
    /\ \A a \in issued, b \in issued : a[1] # b[1] => a[2] # b[2]

\* C36: the server writes to a game connection only the catalogue on accept
\* and at most one reply per received read: the number of writes on a
\* connection never exceeds 1 plus the number of non-empty reads completed on
\* it, and every write is the catalogue push of a starting handler or the
\* one reply to the message of the read that precedes it.
C36_WritesBoundedByReads ==
    /\ [](\A c \in Conns : Len(written[c]) <= 1 + received[c])
    /\ [][\A c \in Conns :
             written'[c] # written[c]
                 => /\ Len(written'[c]) = Len(written[c]) + 1
                    /\ \/ pc[c] = "start" /\ written[c] = <<>> /\ received[c] = 0
                       \/ pc[c] = "loop" /\ received'[c] = received[c] + 1
                       \/ /\ pc[c] = "login" /\ pc'[c] = "loop"
                          /\ received'[c] = received[c]
                          /\ Len(written[c]) <= received[c]]_vars

\* A connection that was read twice and answered twice carries three writes
C36_TwoReadsThreeWrites ==
    \E c \in Conns : received[c] = 2 /\ Len(written[c]) = 3 /\ pc[c] = "loop"

C38_HandlersTerminateAfterStop ==
    /\ \A c \in Conns : (~tcp_server_running /\ Live(c)) ~> (pc[c] = "closed")
    /\ []((~tcp_server_running /\ \A c \in Conns : ~Live(c)) => DOMAIN tcp_clients = {})

\* The server was stopped while both handlers were waiting in their loops
\* after a login or a timeout, one of them logged in, and both have terminated
C38_StoppedHandlersTerminated ==
    /\ ~tcp_server_running
    /\ \A c \in Conns : pc[c] = "closed" /\ written[c] # <<>>
                           /\ last[c].event \in {"login_ok", "timeout"}
    /\ \E c \in Conns : logged_in[c]
    /\ DOMAIN tcp_clients = {}

\* C40: a failure while serving one connection does not stop a listener:
\* after an exception raised while serving a policy-port connection the
\* policy listener is still open and its thread still accepts, as long as
\* the running flag is true.
C40_FailureKeepsListener ==
    policy_server_running
        => policy_listener = "listening" /\ policy_thread \in {"accept", "serve"}

====
